---- MODULE Spec2Model ----
(***************************************************************************)
(* A model of the Trading-Agent screening / iteration pipeline.            *)
(*                                                                         *)
(* Each component of the repository is modelled by its own group of        *)
(* variables and its own specification (SpecPool, SpecStory, ...).  A      *)
(* specification initialises the variables of the other components to a    *)
(* fixed idle value and never changes them.                                *)
(*                                                                         *)
(* Text is modelled by token sequences: a title or a prompt is a sequence  *)
(* of tokens and Python's `kw in text` is the contiguous-subsequence test. *)
(* The Chinese literals of the source are written as ASCII tokens; the     *)
(* comment next to each token gives the literal.                           *)
(* Numbers are fixed point: percentages in 0.001 %, weights in 0.001,      *)
(* multipliers in 0.0001.                                                  *)
(***************************************************************************)
EXTENDS Integers, Sequences, FiniteSets, TLC

VARIABLES
    \* ---- patch pool (iteration/patch_pool.py) ----
    pool,          \* content of patch_pool.json: the "proposals" list
    rulebook,      \* content of the rulebook YAML file
    prompt,        \* content of the prompt file, a token sequence
    clock,         \* datetime.now(), in seconds
    ret,           \* the last pool operation: its name, what it was given and returned
    applyCount     \* history: per pool position, how often lines 112-129 ran for it

poolVars == <<pool, rulebook, prompt, clock, ret, applyCount>>

VARIABLES
    \* ---- story engine (analyzer/story_two_layer.py) ----
    candidates,       \* the symbols of the candidates given, "" for a missing symbol
    story_i,          \* position of the loop of line 379
    story_step,       \* the step the loop body is about to run
    narrative_json,
    timeline_json,
    story_card,
    err_msg,
    prompt_io,
    story_by_symbol,
    llm_calls         \* history: the llm.invoke calls made for the current symbol

storyVars == <<candidates, story_i, story_step, narrative_json, timeline_json,
               story_card, err_msg, prompt_io, story_by_symbol, llm_calls>>

VARIABLES
    \* ---- fine filter (analyzer/fine_filter_engine.py) ----
    fine_candidates,   \* the candidates given
    fine_map,          \* sector_context_by_symbol
    fine_pc,           \* "build", "loop" or "done"
    fine_llm,          \* "unset", "ready", or why llm is None
    fine_i,            \* position of the loop of line 299
    cards,
    trace_by_symbol,
    fine_log,          \* history: per card, the path taken and the error caught
    fine_out           \* what analyze_candidates returned

fineVars == <<fine_candidates, fine_map, fine_pc, fine_llm, fine_i, cards,
              trace_by_symbol, fine_log, fine_out>>

VARIABLES
    \* ---- tracker (iteration/tracker.py) ----
    targets,       \* the symbols of the targets given
    track_pc,      \* "loop" or "done"
    track_i,       \* position of the loop of line 198
    metrics,
    fetched        \* history: per metric, what the price fetch gave

trackVars == <<targets, track_pc, track_i, metrics, fetched>>

VARIABLES
    \* ---- sector calibrator (sector/sector_calibrator.py) ----
    all_candidates,
    analysis_list,
    calib_pc,      \* "stats", "items" or "done"
    sector_stats,
    calibrated

calibVars == <<all_candidates, analysis_list, calib_pc, sector_stats, calibrated>>

VARIABLES
    \* ---- coarse screener (screener/coarse_rules.py) ----
    records,
    top_n,             \* the top_n argument
    screen_rulebook,   \* the rulebook argument
    screen_pc,         \* "loop" or "done"
    screen_i,          \* position of the loop of line 102
    kept,
    dropped,
    coarse_result      \* the CoarseResult returned

screenVars == <<records, top_n, screen_rulebook, screen_pc, screen_i, kept, dropped, coarse_result>>

VARIABLES
    \* ---- review engine (iteration/review_engine.py) ----
    tracking_metrics,       \* the batch given to generate_patch_suggestions
    min_valid_t3_samples,
    review_pc,              \* "called", "returned" or "raised"
    review_out              \* what generate_patch_suggestions returned

reviewVars == <<tracking_metrics, min_valid_t3_samples, review_pc, review_out>>

VARIABLES
    \* ---- overlapping invocations on one pool (iteration/patch_pool.py) ----
    race_calls,  \* per invocation: its operation, its position and its local values
    saved,     \* history: the invocations in the order of their save_patch_pool
    pool0      \* history: the pool file before the invocations started

raceVars == <<race_calls, saved, pool0>>

VARIABLES
    \* ---- proposal lists of the iteration pipeline (pipelines/iteration_pipeline.py) ----
    dedupe_in,     \* the proposals given to _dedupe_and_limit_proposals
    max_items,
    dedupe_pc,     \* "called" or "returned"
    dedupe_out     \* the list returned

dedupeVars == <<dedupe_in, max_items, dedupe_pc, dedupe_out>>

VARIABLES
    \* ---- one call of _fallback_decision (analyzer/fine_filter_engine.py) ----
    stage_item,    \* the candidate record given to it
    stage_pc,      \* "called" or "returned"
    stage_card     \* the DecisionCard returned

stageVars == <<stage_item, stage_pc, stage_card>>

VARIABLES
    \* ---- one call of set_proposal_status (iteration/patch_pool.py) ----
    status_ret     \* the call made in the last step: its arguments and what it returned

statusVars == <<status_ret>>

VARIABLES
    \* ---- one run of the iteration pipeline (pipelines/iteration_pipeline.py) ----
    iter_in,       \* the tracked metrics and the iteration settings of the run
    iter_pc,       \* "review", "ai", "dedupe", "append", "done" or "raised"
    iter_lists,    \* summary_payload's two suggestion lists
    iter_pool      \* the proposals of the pool file

iterVars == <<iter_in, iter_pc, iter_lists, iter_pool>>

VARIABLES
    \* ---- the prompt of the fine filter (analyzer/fine_filter_engine.py) ----
    prompt_file,      \* config's prompt_path: whether set, whether the file exists, its text
    tpl_pc,           \* "start", "loaded" or "rendered"
    prompt_template,  \* what _load_prompt_template returned
    rendered          \* what _render_prompt returned

tplVars == <<prompt_file, tpl_pc, prompt_template, rendered>>

vars == <<poolVars, storyVars, fineVars, trackVars, calibVars, screenVars, reviewVars,
          raceVars, dedupeVars, stageVars, statusVars, iterVars, tplVars>>

\* A component that is not run keeps its variables at these values.
PoolIdle ==
    /\ pool = <<>> /\ rulebook = <<>> /\ prompt = <<>>
    /\ clock = 0 /\ ret = <<>> /\ applyCount = <<>>

StoryIdle ==
    /\ candidates = <<>> /\ story_i = 0 /\ story_step = "idle"
    /\ narrative_json = <<>> /\ timeline_json = <<>> /\ story_card = <<>>
    /\ err_msg = <<>> /\ prompt_io = <<>> /\ story_by_symbol = <<>>
    /\ llm_calls = <<>>

ScreenIdle ==
    /\ records = <<>> /\ top_n = 0 /\ screen_rulebook = <<>>
    /\ screen_pc = "idle" /\ screen_i = 0
    /\ kept = <<>> /\ dropped = <<>> /\ coarse_result = <<>>

CalibIdle ==
    /\ all_candidates = <<>> /\ analysis_list = <<>> /\ calib_pc = "idle"
    /\ sector_stats = <<>> /\ calibrated = <<>>

TrackIdle ==
    /\ targets = <<>> /\ track_pc = "idle" /\ track_i = 0
    /\ metrics = <<>> /\ fetched = <<>>

FineIdle ==
    /\ fine_candidates = <<>> /\ fine_map = <<>> /\ fine_pc = "idle"
    /\ fine_llm = "unset" /\ fine_i = 0 /\ cards = <<>>
    /\ trace_by_symbol = <<>> /\ fine_log = <<>> /\ fine_out = <<>>

NoStatusRet == [called |-> FALSE, proposal_ids |-> {}, status |-> "", raised |-> FALSE,
                updated |-> <<>>]

StatusIdle == status_ret = NoStatusRet

TplIdle ==
    prompt_file = <<>> /\ tpl_pc = "idle" /\ prompt_template = <<>> /\ rendered = <<>>

IterIdle == iter_in = <<>> /\ iter_pc = "idle" /\ iter_lists = <<>> /\ iter_pool = <<>>

StageIdle == stage_item = <<>> /\ stage_pc = "idle" /\ stage_card = <<>>

DedupeIdle ==
    dedupe_in = <<>> /\ max_items = 0 /\ dedupe_pc = "idle" /\ dedupe_out = <<>>

RaceIdle == race_calls = <<>> /\ saved = <<>> /\ pool0 = <<>>

ReviewIdle ==
    /\ tracking_metrics = <<>> /\ min_valid_t3_samples = 0
    /\ review_pc = "idle" /\ review_out = <<>>

\* ------------------------------------------------------------------------
\* Generic helpers
\* ------------------------------------------------------------------------

Range(s) == {s[i] : i \in 1..Len(s)}

Max(a, b) == IF a >= b THEN a ELSE b

Min(a, b) == IF a <= b THEN a ELSE b

\* Python's `kw in text` on token sequences.
IsInfix(kw, text) ==
    \E i \in 0..(Len(text) - Len(kw)) :
        \A j \in 1..Len(kw) : text[i + j] = kw[j]

\* All sequences over S of length 0..n.
SeqsUpTo(S, n) == UNION {[1..k -> S] : k \in 0..n}

\* ------------------------------------------------------------------------
\* Bounds of the pool model
\* ------------------------------------------------------------------------

MaxPool == 2        \* proposals in the pool

\* The seconds the clock shows: two calls fall in the same second or not.
Seconds == {0, 1}

\* ------------------------------------------------------------------------
\* Patch pool: data
\* ------------------------------------------------------------------------

\* "回撤过滤" (drawdown filter), patch_pool.py line 118
KwMddFilter == <<"mdd_filter">>

\* "高位加速权重" (high-position acceleration weight), patch_pool.py line 120
KwStyleWeight == <<"style_weight">>

\* "强化回撤过滤", review_engine.py line 92
TitleMdd == <<"strengthen", "mdd_filter">>

\* "下调高位加速权重", review_engine.py line 123
TitleStyle == <<"lower", "style_weight">>

\* "增强风险项约束", review_engine.py line 102
TitleRisk == <<"risk_constraint">>

ValidStatuses == {"proposed", "accepted", "rejected"}

\* Suggestions handed to append_proposals: what review_engine builds (status
\* "proposed"), and one that already carries another status.
Suggestions ==
    { [type |-> "rule",   title |-> TitleMdd,      suggestion |-> "s_mdd",   status |-> "proposed"],
      [type |-> "rule",   title |-> TitleStyle,    suggestion |-> "s_style", status |-> "proposed"],
      [type |-> "prompt", title |-> TitleRisk,     suggestion |-> "s_risk",  status |-> "accepted"] }

RuleSuggestions == {s \in Suggestions : s.type = "rule"}

PromptSuggestions == {s \in Suggestions : s.type = "prompt"}

NoId == [prefix |-> "", ts |-> 0, idx |-> 0]

\* _now_id: f"{prefix}_{ts}_{idx:02d}"
NowId(prefix, ts, idx) == [prefix |-> prefix, ts |-> ts, idx |-> idx]

\* Weights are in 0.001.
DefaultStyleScore == 100

StyleStep == 20

StyleFloor == 50

\* hard_filters.max_3d_mdd_pct forced by a drawdown-filter rule, in 0.001 %
MddFilterValue == -8000

\* Prompt tokens.
TokText == [k |-> "text", id |-> NoId, title |-> <<>>, suggestion |-> ""]

\* trailing whitespace, removed by rstrip()
TokWs == [k |-> "ws", id |-> NoId, title |-> <<>>, suggestion |-> ""]

\* "## Iteration Patches"
TokHeader == [k |-> "header", id |-> NoId, title |-> <<>>, suggestion |-> ""]

\* f"\n- [{pid}] {title}: {suggestion}\n"
TokNote(pid, title, suggestion) ==
    [k |-> "note", id |-> pid, title |-> title, suggestion |-> suggestion]

RECURSIVE RStrip(_)
RStrip(text) ==
    IF Len(text) > 0 /\ text[Len(text)].k = "ws"
    THEN RStrip(SubSeq(text, 1, Len(text) - 1))
    ELSE text

HasHeader(text) == \E i \in 1..Len(text) : text[i].k = "header"

\* ------------------------------------------------------------------------
\* Patch pool: operations
\* ------------------------------------------------------------------------

EmptyRulebook ==
    [hard_filters |-> [has_max_3d_mdd_pct |-> FALSE, max_3d_mdd_pct |-> 0],
     weights |-> [has_style_score |-> FALSE, style_score |-> 0],
     applied_rule_notes |-> <<>>]

\* The files the first apply finds on a fresh installation: no rulebook file
\* (the loader returns {}), and a prompt text that ends in blank lines and does
\* not hold the patches heading yet.
InitFiles ==
    { [rulebook |-> EmptyRulebook, prompt |-> <<TokText, TokWs>>] }

NoRet ==
    [op |-> "none", rule_suggestions |-> <<>>, prompt_suggestions |-> <<>>,
     applied_rule_ids |-> <<>>, applied_prompt_ids |-> <<>>]

\* "applied_at" is not set.
NoTime == 0 - 1

\* Mutant: the suggestion's own status is kept.
NewItemStatus_Carried(p) == p.status

\* The status append_proposals gives the item made from suggestion p.
NewItemStatus(p) == "proposed"

\* One item of append_proposals' loops.
NewItem(p, prefix, ts, idx, trade_date) ==
    [type |-> p.type, title |-> p.title, suggestion |-> p.suggestion,
     id |-> NowId(prefix, ts, idx), trade_date |-> trade_date,
     status |-> NewItemStatus(p), applied |-> FALSE, applied_at |-> NoTime]

\* `added` of append_proposals: rules first, then prompts, idx running on.
AddedItems(rules, prompts, ts, trade_date) ==
    [i \in 1..(Len(rules) + Len(prompts)) |->
        IF i <= Len(rules)
        THEN NewItem(rules[i], "rule", ts, i, trade_date)
        ELSE NewItem(prompts[i - Len(rules)], "prompt", ts, i, trade_date)]

\* proposals.append(item) for every added item.
AppendedPool(proposals, added) == proposals \o added

AppendProposals(rules, prompts, trade_date) ==
    LET n == Len(rules) + Len(prompts)
        added == AddedItems(rules, prompts, clock, trade_date)
    IN  /\ Len(pool) + n <= MaxPool
        /\ pool' = AppendedPool(pool, added)
        /\ ret' = [NoRet EXCEPT !.op = "append", !.rule_suggestions = rules,
                                !.prompt_suggestions = prompts]
        /\ applyCount' = applyCount \o [i \in 1..n |-> 0]
        /\ UNCHANGED <<rulebook, prompt, clock>>

\* Mutant: the status is set on every proposal of the pool.
StatusUpdated_All(proposals, id_set, status) ==
    [i \in 1..Len(proposals) |-> [proposals[i] EXCEPT !.status = status]]

\* The proposals set_proposal_status rewrites.
StatusUpdated(proposals, id_set, status) ==
    [i \in 1..Len(proposals) |->
        IF proposals[i].id \in id_set
        THEN [proposals[i] EXCEPT !.status = status]
        ELSE proposals[i]]

\* `updated`: the rewritten proposals, in pool order.
UpdatedItems(proposals, id_set, status) ==
    SelectSeq(StatusUpdated(proposals, id_set, status), LAMBDA p : p.id \in id_set)

SetProposalStatus(proposal_ids, status) ==
    IF status \notin ValidStatuses
    THEN \* raise ValueError("Invalid status"), before the pool is loaded
         /\ ret' = [NoRet EXCEPT !.op = "set_status_raised"]
         /\ UNCHANGED <<pool, rulebook, prompt, clock, applyCount>>
    ELSE /\ pool' = StatusUpdated(pool, proposal_ids, status)
         /\ ret' = [NoRet EXCEPT !.op = "set_status"]
         /\ UNCHANGED <<rulebook, prompt, clock, applyCount>>

\* Mutant: the `applied is True` guard is missing.
ShouldApply_NoAppliedGuard(p) == p.status = "accepted"

\* The two `continue` guards of apply_accepted_proposals' loop.
ShouldApply(p) == p.status = "accepted" /\ ~(p.applied = TRUE)

\* Mutant: the style weight is lowered without the floor.
ApplyRule_NoFloor(rb, p) ==
    LET hf == IF IsInfix(KwMddFilter, p.title)
              THEN [has_max_3d_mdd_pct |-> TRUE, max_3d_mdd_pct |-> MddFilterValue]
              ELSE rb.hard_filters
        base == IF rb.weights.has_style_score THEN rb.weights.style_score
                ELSE DefaultStyleScore
        w == IF IsInfix(KwStyleWeight, p.title)
             THEN [has_style_score |-> TRUE, style_score |-> base - StyleStep]
             ELSE rb.weights
    IN  [hard_filters |-> hf, weights |-> w,
         applied_rule_notes |->
            Append(rb.applied_rule_notes,
                   [id |-> p.id, title |-> p.title, suggestion |-> p.suggestion])]

\* The rule branch.
ApplyRule(rb, p) ==
    LET hf == IF IsInfix(KwMddFilter, p.title)
              THEN [has_max_3d_mdd_pct |-> TRUE, max_3d_mdd_pct |-> MddFilterValue]
              ELSE rb.hard_filters
        base == IF rb.weights.has_style_score THEN rb.weights.style_score
                ELSE DefaultStyleScore
        w == IF IsInfix(KwStyleWeight, p.title)
             THEN [has_style_score |-> TRUE, style_score |-> Max(StyleFloor, base - StyleStep)]
             ELSE rb.weights
    IN  [hard_filters |-> hf, weights |-> w,
         applied_rule_notes |->
            Append(rb.applied_rule_notes,
                   [id |-> p.id, title |-> p.title, suggestion |-> p.suggestion])]

\* The loop body for a proposal that is applied.
ApplyOne(st, i, now) ==
    LET p == st.proposals[i]
    IN  [rulebook |-> IF p.type = "rule" THEN ApplyRule(st.rulebook, p) ELSE st.rulebook,
         prompt |-> IF p.type = "prompt"
                    THEN Append(st.prompt, TokNote(p.id, p.title, p.suggestion))
                    ELSE st.prompt,
         proposals |-> [st.proposals EXCEPT ![i] =
                            [p EXCEPT !.applied = TRUE, !.applied_at = now]],
         applied_rule_ids |-> IF p.type = "rule" THEN Append(st.applied_rule_ids, p.id)
                              ELSE st.applied_rule_ids,
         applied_prompt_ids |-> IF p.type = "prompt" THEN Append(st.applied_prompt_ids, p.id)
                                ELSE st.applied_prompt_ids,
         counts |-> [st.counts EXCEPT ![i] = @ + 1]]

RECURSIVE ApplyLoop(_, _, _)
ApplyLoop(st, i, ts) ==
    IF i > Len(st.proposals) THEN st
    ELSE IF ShouldApply(st.proposals[i])
         THEN ApplyLoop(ApplyOne(st, i, ts), i + 1, ts)
         ELSE ApplyLoop(st, i + 1, ts)

\* The heading is added when the prompt text does not hold it.
WithHeader(text) ==
    IF HasHeader(text) THEN text ELSE RStrip(text) \o <<TokWs, TokHeader, TokWs>>

ApplyAcceptedProposals ==
    LET st0 == [rulebook |-> rulebook, prompt |-> WithHeader(prompt), proposals |-> pool,
                applied_rule_ids |-> <<>>, applied_prompt_ids |-> <<>>,
                counts |-> applyCount]
        st == ApplyLoop(st0, 1, clock)
    IN  /\ rulebook' = st.rulebook
        /\ prompt' = st.prompt
        /\ pool' = st.proposals
        /\ UNCHANGED clock
        /\ ret' = [NoRet EXCEPT !.op = "apply",
                                !.applied_rule_ids = st.applied_rule_ids,
                                !.applied_prompt_ids = st.applied_prompt_ids]
        /\ applyCount' = st.counts

\* Time passes.  The loops of one invocation read the clock within one second.
Tick ==
    /\ clock + 1 \in Seconds
    /\ clock' = clock + 1
    /\ UNCHANGED <<pool, rulebook, prompt, ret, applyCount>>

PoolInit ==
    /\ pool = <<>>
    /\ \E f \in InitFiles : rulebook = f.rulebook /\ prompt = f.prompt
    /\ clock = 0
    /\ ret = NoRet
    /\ applyCount = <<>>

UnknownId == NowId("rule", 0, 0)

PoolIds == {pool[i].id : i \in 1..Len(pool)}

PoolAppend ==
    \E rules \in SeqsUpTo(RuleSuggestions, MaxPool - Len(pool)),
       prompts \in SeqsUpTo(PromptSuggestions, MaxPool - Len(pool)) :
        AppendProposals(rules, prompts, "d1")

\* The id lists given: one id of the pool, or all of them and an id it lacks.
IdSets == {{id} : id \in PoolIds} \cup {PoolIds \cup {UnknownId}}

PoolSetStatus ==
    \/ \E ids \in IdSets, status \in ValidStatuses : SetProposalStatus(ids, status)
    \/ SetProposalStatus(PoolIds, "applied")

PoolApply == ApplyAcceptedProposals

PoolNext ==
    \/ PoolAppend /\ UNCHANGED <<storyVars, fineVars, trackVars, calibVars, screenVars, reviewVars, raceVars, dedupeVars, stageVars, statusVars, iterVars, tplVars>>
    \/ PoolSetStatus /\ UNCHANGED <<storyVars, fineVars, trackVars, calibVars, screenVars, reviewVars, raceVars, dedupeVars, stageVars, statusVars, iterVars, tplVars>>
    \/ PoolApply /\ UNCHANGED <<storyVars, fineVars, trackVars, calibVars, screenVars, reviewVars, raceVars, dedupeVars, stageVars, statusVars, iterVars, tplVars>>
    \/ Tick /\ UNCHANGED <<storyVars, fineVars, trackVars, calibVars, screenVars, reviewVars, raceVars, dedupeVars, stageVars, statusVars, iterVars, tplVars>>

PoolStart == PoolInit /\ StoryIdle /\ FineIdle /\ TrackIdle /\ CalibIdle /\ ScreenIdle /\ ReviewIdle /\ RaceIdle /\ DedupeIdle /\ StageIdle /\ StatusIdle /\ IterIdle /\ TplIdle

SpecPool == PoolStart /\ [][PoolNext]_vars

\* ------------------------------------------------------------------------
\* set_proposal_status with its arguments and its return value on record
\* ------------------------------------------------------------------------

\* One call: the arguments, whether it raised, and the list it returned.
SetProposalStatusCall(proposal_ids, status) ==
    /\ SetProposalStatus(proposal_ids, status)
    /\ status_ret' = [called |-> TRUE, proposal_ids |-> proposal_ids, status |-> status,
                      raised |-> status \notin ValidStatuses,
                      updated |-> IF status \notin ValidStatuses THEN <<>>
                                  ELSE UpdatedItems(pool, proposal_ids, status)]

StatusCall ==
    \/ \E ids \in IdSets, status \in ValidStatuses : SetProposalStatusCall(ids, status)
    \/ SetProposalStatusCall(PoolIds, "applied")

\* The pool the calls work on is built by append_proposals and
\* apply_accepted_proposals, all within one second.
StatusNext ==
    \/ PoolAppend /\ status_ret' = NoStatusRet
         /\ UNCHANGED <<storyVars, fineVars, trackVars, calibVars, screenVars, reviewVars,
                        raceVars, dedupeVars, stageVars, iterVars, tplVars>>
    \/ StatusCall
         /\ UNCHANGED <<storyVars, fineVars, trackVars, calibVars, screenVars, reviewVars,
                        raceVars, dedupeVars, stageVars, iterVars, tplVars>>
    \/ PoolApply /\ status_ret' = NoStatusRet
         /\ UNCHANGED <<storyVars, fineVars, trackVars, calibVars, screenVars, reviewVars,
                        raceVars, dedupeVars, stageVars, iterVars, tplVars>>

StatusStart ==
    PoolInit /\ StatusIdle /\ StoryIdle /\ FineIdle /\ TrackIdle /\ CalibIdle /\ ScreenIdle
    /\ ReviewIdle /\ RaceIdle /\ DedupeIdle /\ StageIdle /\ IterIdle /\ TplIdle

SpecStatus == StatusStart /\ [][StatusNext]_vars

\* ------------------------------------------------------------------------
\* Claims about the patch pool
\* ------------------------------------------------------------------------

\* A proposal apply_accepted_proposals has to act on, as the claims put it.
AcceptedUnapplied(p) == p.status = "accepted" /\ p.applied # TRUE

NonePending == \A i \in 1..Len(pool) : ~AcceptedUnapplied(pool[i])

\* In every step: a proposal already marked applied keeps its mark and its
\* applied_at and is not processed again, and no proposal is ever processed
\* by more than one apply invocation.
AppliedStaysApplied ==
    /\ \A i \in 1..Len(pool) :
          pool[i].applied = TRUE =>
             /\ pool'[i].applied = TRUE
             /\ pool'[i].applied_at = pool[i].applied_at
             /\ applyCount'[i] = applyCount[i]
    /\ \A i \in 1..Len(pool') : applyCount'[i] <= 1

\* An apply invocation that found nothing to apply (the only other step that
\* leaves ret.op = "apply" is Tick, which moves the clock).
IdleApplyStep == ret'.op = "apply" /\ clock' = clock /\ NonePending

\* C1 as stated: applying is idempotent per proposal (an applied proposal is
\* skipped by every later invocation, so it is applied and reported at most
\* once), and an apply invocation that finds no accepted-and-unapplied
\* proposal leaves the rulebook content, the prompt text and every proposal's
\* applied/applied_at unchanged.
C1_Original ==
    [][ /\ AppliedStaysApplied
        /\ IdleApplyStep =>
              /\ rulebook' = rulebook
              /\ prompt' = prompt
              /\ pool' = pool
              /\ ret'.applied_rule_ids = <<>> /\ ret'.applied_prompt_ids = <<>> ]_vars

\* C1 amended: as C1, except that an apply invocation that finds nothing to
\* apply leaves the prompt text unchanged only when it already holds the
\* "## Iteration Patches" heading; otherwise it strips the trailing whitespace
\* and appends that heading (and nothing else).
C1_ApplyIdempotent ==
    [][ /\ AppliedStaysApplied
        /\ IdleApplyStep =>
              /\ rulebook' = rulebook
              /\ (HasHeader(prompt) => prompt' = prompt)
              /\ (~HasHeader(prompt) =>
                    /\ Len(prompt') > 0
                    /\ \E k \in 0..Len(prompt) :
                          /\ prompt' = SubSeq(prompt, 1, k) \o <<TokWs, TokHeader, TokWs>>
                          /\ \A j \in (k + 1)..Len(prompt) : prompt[j].k = "ws"
                          /\ (k > 0 => prompt[k].k # "ws"))
              /\ pool' = pool
              /\ ret'.applied_rule_ids = <<>> /\ ret'.applied_prompt_ids = <<>> ]_vars

\* C1 witness: the last apply invocation applied nothing although a proposal
\* with status accepted is in the pool, applied once by an earlier invocation.
C1_Witness ==
    /\ ret.op = "apply"
    /\ ret.applied_rule_ids = <<>> /\ ret.applied_prompt_ids = <<>>
    /\ \E i \in 1..Len(pool) :
          /\ pool[i].status = "accepted"
          /\ pool[i].applied = TRUE
          /\ pool[i].applied_at < clock
          /\ applyCount[i] = 1

\* What append_proposals stores of a suggestion besides id, status and marks.
SameContent(item, p) ==
    item.type = p.type /\ item.title = p.title /\ item.suggestion = p.suggestion

\* C10: the pool is append-only under sequential use.  No step removes or
\* reorders a proposal or changes anything of it but status, applied and
\* applied_at; and the only step that lengthens the pool is append_proposals,
\* which puts every given suggestion at the end, rules first, then prompts,
\* in input order, each with the id <type>_<timestamp>_<index> and the status
\* "proposed", whatever status the suggestion carried.
C10_AppendOnly ==
    [][ /\ Len(pool') >= Len(pool)
        /\ \A i \in 1..Len(pool) :
              /\ SameContent(pool'[i], pool[i])
              /\ pool'[i].id = pool[i].id
              /\ pool'[i].trade_date = pool[i].trade_date
        /\ (ret'.op = "append" /\ ret' # ret) \/ Len(pool') > Len(pool) =>
              LET given == ret'.rule_suggestions \o ret'.prompt_suggestions
                  nr == Len(ret'.rule_suggestions)
              IN  /\ ret'.op = "append"
                  /\ Len(pool') = Len(pool) + Len(given)
                  /\ \A k \in 1..Len(given) :
                        LET item == pool'[Len(pool) + k]
                        IN  /\ SameContent(item, given[k])
                            /\ item.status = "proposed"
                            /\ item.id = [prefix |-> IF k <= nr THEN "rule" ELSE "prompt",
                                          ts |-> clock, idx |-> k]
                            /\ item.applied = FALSE ]_vars

\* C10 witness: two proposals appended by different invocations are both in
\* the pool after the first was accepted, applied and then rejected; the last
\* append was given a suggestion that carried the status "accepted".
C10_Witness ==
    /\ Len(pool) = 2
    /\ pool[1].id.ts < pool[2].id.ts
    /\ pool[1].applied = TRUE /\ pool[1].status = "rejected"
    /\ ret.op = "append"
    /\ Len(ret.prompt_suggestions) = 1
    /\ ret.prompt_suggestions[1].status = "accepted"
    /\ pool[2].status = "proposed"

\* What one step of set_proposal_status does, read from the call on record
\* after the step and the pool before and after it.
StatusStep ==
    status_ret'.called =>
        /\ status_ret'.raised <=> status_ret'.status \notin {"proposed", "accepted", "rejected"}
        /\ status_ret'.raised => pool' = pool /\ status_ret'.updated = <<>>
        /\ ~status_ret'.raised =>
              /\ Len(pool') = Len(pool)
              /\ \A i \in 1..Len(pool) :
                    IF pool[i].id \in status_ret'.proposal_ids
                    THEN pool'[i] = [pool[i] EXCEPT !.status = status_ret'.status]
                    ELSE pool'[i] = pool[i]
              /\ status_ret'.updated =
                    SelectSeq(pool', LAMBDA p : p.id \in status_ret'.proposal_ids)

\* C11: set_proposal_status accepts only proposed, accepted and rejected.  For
\* any other status it raises and the stored pool is unchanged; for an
\* accepted value it sets the status of exactly the proposals whose id is in
\* the given id set, returns exactly those proposals, and leaves every other
\* proposal and every other field (applied, applied_at, ...) unchanged.
C11_SetStatus == [][StatusStep]_vars

\* C11 witness: a call that named one of two proposals has just rejected a
\* proposal that was applied before; the proposal is returned, still applied.
C11_Witness ==
    /\ status_ret.called /\ ~status_ret.raised
    /\ Len(pool) = 2
    /\ Cardinality(status_ret.proposal_ids) = 1
    /\ Len(status_ret.updated) = 1
    /\ status_ret.updated[1].status = "rejected"
    /\ status_ret.updated[1].applied = TRUE
    /\ status_ret.updated[1].applied_at # NoTime

\* No two proposals of the pool carry the same id.
IdsUnique == \A i, j \in 1..Len(pool) : pool[i].id = pool[j].id => i = j

\* What does hold: two proposals with one id were appended in the same second
\* with the same type and the same running index.
SameIdSameSecond ==
    \A i, j \in 1..Len(pool) :
        pool[i].id = pool[j].id =>
            /\ pool[i].id.ts = pool[j].id.ts
            /\ pool[i].type = pool[j].type

\* C27 as stated: after any sequence of append_proposals invocations, two of
\* them within one second included, no two proposals of the pool share an
\* id, so a set_proposal_status call that names one id changes at most one
\* proposal.
C27_IdsUnique ==
    /\ IdsUnique
    /\ status_ret.called /\ Cardinality(status_ret.proposal_ids) = 1 =>
          Len(status_ret.updated) <= 1

\* What does hold: a proposal is accepted in the step that marks it applied.
AcceptedWhenApplied ==
    [][ \A i \in 1..Len(pool) :
            pool[i].applied # TRUE /\ pool'[i].applied = TRUE =>
                pool[i].status = "accepted" /\ pool'[i].status = "accepted" ]_vars

\* C28 as stated: after any sequence of append_proposals,
\* set_proposal_status and apply_accepted_proposals calls, every proposal
\* marked applied has the status accepted.
C28_AppliedIsAccepted ==
    \A i \in 1..Len(pool) : pool[i].applied = TRUE => pool[i].status = "accepted"

\* ------------------------------------------------------------------------
\* Applying to a rulebook that already carries a style weight
\* ------------------------------------------------------------------------

\* A rulebook file whose weights.style_score was tuned down to 0.06 before
\* the first apply.
TunedRulebook ==
    [EmptyRulebook EXCEPT !.weights = [has_style_score |-> TRUE, style_score |-> 60]]

RulebookInit ==
    /\ pool = <<>>
    /\ rulebook = TunedRulebook
    /\ \E f \in InitFiles : prompt = f.prompt
    /\ clock = 0
    /\ ret = NoRet
    /\ applyCount = <<>>

RulebookStart ==
    RulebookInit /\ StoryIdle /\ FineIdle /\ TrackIdle /\ CalibIdle /\ ScreenIdle
    /\ ReviewIdle /\ RaceIdle /\ DedupeIdle /\ StageIdle /\ StatusIdle /\ IterIdle /\ TplIdle

SpecRulebook == RulebookStart /\ [][PoolNext]_vars

\* The proposals one apply invocation acts on, in pool order, by type.
PendingOfType(ptype) ==
    SelectSeq(pool, LAMBDA p : AcceptedUnapplied(p) /\ p.type = ptype)

\* How many of the pending rules carry the keyword kw in their title.
PendingWith(kw) ==
    Cardinality({i \in 1..Len(pool) :
                    /\ AcceptedUnapplied(pool[i]) /\ pool[i].type = "rule"
                    /\ IsInfix(kw, pool[i].title)})

\* What one apply invocation does, stated from the pool before it.
ApplyEffect ==
    LET rules == PendingOfType("rule")
        prompts == PendingOfType("prompt")
        base == IF rulebook.weights.has_style_score THEN rulebook.weights.style_score
                ELSE 100
        k == PendingWith(KwStyleWeight)
    IN  /\ Len(pool') = Len(pool)
        /\ \A i \in 1..Len(pool) :
              IF AcceptedUnapplied(pool[i])
              THEN pool'[i] = [pool[i] EXCEPT !.applied = TRUE, !.applied_at = clock]
              ELSE pool'[i] = pool[i]
        /\ rulebook'.applied_rule_notes =
              rulebook.applied_rule_notes \o
              [j \in 1..Len(rules) |-> [id |-> rules[j].id, title |-> rules[j].title,
                                        suggestion |-> rules[j].suggestion]]
        /\ prompt' =
              WithHeader(prompt) \o
              [j \in 1..Len(prompts) |-> TokNote(prompts[j].id, prompts[j].title,
                                                 prompts[j].suggestion)]
        /\ IF PendingWith(KwMddFilter) > 0
           THEN /\ rulebook'.hard_filters.has_max_3d_mdd_pct
                /\ rulebook'.hard_filters.max_3d_mdd_pct = -8000
           ELSE rulebook'.hard_filters = rulebook.hard_filters
        /\ IF k > 0
           THEN /\ rulebook'.weights.has_style_score
                /\ rulebook'.weights.style_score = Max(50, base - 20 * k)
           ELSE rulebook'.weights = rulebook.weights
        /\ rulebook'.weights.has_style_score => rulebook'.weights.style_score >= 50
        /\ ret'.applied_rule_ids = [j \in 1..Len(rules) |-> rules[j].id]
        /\ ret'.applied_prompt_ids = [j \in 1..Len(prompts) |-> prompts[j].id]

MaxCandidates == 2      \* candidates given to one run

\* item.get("symbol", ""): a candidate may lack its symbol
Symbols == {"", "s1", "s2"}

\* What str(e) of an exception raised by llm.invoke may be: an exception
\* without a message gives the empty text.
InvokeErrorTexts == {<<>>, <<"timeout">>}

\* "No JSON object found in response"
NoJsonText == <<"no_json_object_found">>

\* str(e) of json.loads' JSONDecodeError
JsonDecodeText == <<"json_decode_error">>

\* "未跑通三层" (the three layers did not run through)
NotRunThroughText == <<"not_run_through">>

\* Response contents, as tokens: "ws" white space, "fence" a ``` line, "txt"
\* prose, "{" and "}" braces, "kv" a key with its value.
\*   a fenced object with a key | an empty object | braces around prose |
\*   a closing brace before the only opening one
RawContents ==
    { <<"ws", "fence", "{", "kv", "}", "fence">>,
      <<"{", "}">>,
      <<"txt", "{", "txt", "}">>,
      <<"}", "{">> }

\* What llm.invoke does: it raises, or it returns a response.
LlmOutcomes ==
    {[raised |-> TRUE, err |-> e, content |-> <<>>] : e \in InvokeErrorTexts}
    \cup {[raised |-> FALSE, err |-> <<>>, content |-> c] : c \in RawContents}

RECURSIVE LStrip(_)
LStrip(text) ==
    IF Len(text) > 0 /\ text[1] = "ws" THEN LStrip(Tail(text)) ELSE text

RECURSIVE RStripWs(_)
RStripWs(text) ==
    IF Len(text) > 0 /\ text[Len(text)] = "ws"
    THEN RStripWs(SubSeq(text, 1, Len(text) - 1))
    ELSE text

\* str.strip()
Strip(text) == RStripWs(LStrip(text))

\* text.find(tok) and text.rfind(tok), 1-based; 0 when tok is absent.
Find(text, tok) ==
    IF \E i \in 1..Len(text) : text[i] = tok
    THEN CHOOSE i \in 1..Len(text) :
            text[i] = tok /\ \A j \in 1..(i - 1) : text[j] # tok
    ELSE 0

RFind(text, tok) ==
    IF \E i \in 1..Len(text) : text[i] = tok
    THEN CHOOSE i \in 1..Len(text) :
            text[i] = tok /\ \A j \in (i + 1)..Len(text) : text[j] # tok
    ELSE 0

\* json.loads of a slice "{ ... }": an object of the "kv" tokens between the
\* braces; anything else between them is not JSON.  An object is the sequence
\* of its "kv" tokens; {} is <<>>.
JsonLoads(slice) ==
    LET inner == SubSeq(slice, 2, Len(slice) - 1)
    IN  IF \A i \in 1..Len(inner) : inner[i] = "kv"
        THEN [raised |-> FALSE, err |-> <<>>, parsed |-> inner]
        ELSE [raised |-> TRUE, err |-> JsonDecodeText, parsed |-> <<>>]

\* _extract_json
ExtractJson(text) ==
    LET t1 == Strip(text)
        t2 == IF Len(t1) > 0 /\ t1[1] = "fence" THEN Strip(Tail(t1)) ELSE t1
        start == Find(t2, "{")
        end == RFind(t2, "}")
    IN  IF start = 0 \/ end = 0 \/ end <= start
        THEN [raised |-> TRUE, err |-> NoJsonText, parsed |-> <<>>]
        ELSE JsonLoads(SubSeq(t2, start, end))

\* _invoke_llm_with_trace for the outcome o of llm.invoke
InvokeLlmWithTrace(o) ==
    IF o.raised
    THEN [raised |-> TRUE, err |-> o.err, parsed |-> <<>>, raw |-> <<>>]
    ELSE LET x == ExtractJson(o.content)
         IN  [raised |-> x.raised, err |-> x.err, parsed |-> x.parsed, raw |-> o.content]

\* The prompt text of a step: the step's template filled with its inputs.
PromptText(step, symbol, narr, tl) ==
    [step |-> step, symbol |-> symbol, narrative_json |-> narr, timeline_json |-> tl]

\* ""
EmptyText == [step |-> "", symbol |-> "", narrative_json |-> <<>>, timeline_json |-> <<>>]

StepNames == {"narrative_generator", "timeline_catalyst", "story_synthesizer"}

NoEntry ==
    [present |-> FALSE, prompt_text |-> EmptyText, raw_response |-> <<>>,
     parsed |-> <<>>, has_error |-> FALSE, error |-> <<>>]

EmptyIo == [s \in StepNames |-> NoEntry]

\* The prompt_io entry a step writes: the try branch, or the except branch.
IoEntry(p, r) ==
    IF r.raised
    THEN [present |-> TRUE, prompt_text |-> EmptyText, raw_response |-> <<>>,
          parsed |-> <<>>, has_error |-> TRUE, error |-> r.err]
    ELSE [present |-> TRUE, prompt_text |-> p, raw_response |-> r.raw,
          parsed |-> r.parsed, has_error |-> FALSE, error |-> <<>>]

\* story_card = {}
EmptyCard == [placeholder |-> FALSE, obj |-> <<>>, data_gaps |-> <<>>]

\* Mutant: the placeholder never carries the error message.
DataGaps_Default(msg) == <<NotRunThroughText>>

\* [err_msg or "未跑通三层"]
DataGaps(msg) == <<IF msg # <<>> THEN msg ELSE NotRunThroughText>>

PlaceholderCard(msg) == [placeholder |-> TRUE, obj |-> <<>>, data_gaps |-> DataGaps(msg)]

\* bool(d) of a dict
Truthy(d) == d # <<>>

NoRecord ==
    [present |-> FALSE, narrative_json |-> <<>>, timeline_json |-> <<>>,
     story_card |-> EmptyCard, prompt_io |-> EmptyIo, calls |-> <<>>]

\* One llm.invoke call, for the history: the prompt sent, whether a response
\* came back and its content, and whether the step raised and with what text.
Call(step, p, o, r) ==
    [step |-> step, prompt |-> p, answered |-> ~o.raised, content |-> o.content,
     failed |-> r.raised, err |-> r.err]

\* ------------------------------------------------------------------------
\* Story engine: the loop body of run_story_analysis_2layer
\* ------------------------------------------------------------------------

CurSymbol == candidates[story_i]

\* Lines 380-382: a candidate without symbol is passed over.
SkipSymbol ==
    /\ story_step = "narrative"
    /\ story_i <= Len(candidates)
    /\ CurSymbol = ""
    /\ story_i' = story_i + 1
    /\ UNCHANGED <<candidates, story_step, narrative_json, timeline_json, story_card,
                   err_msg, prompt_io, story_by_symbol, llm_calls>>

\* Lines 398-425: the per-symbol variables are reset, narrative_generator runs.
NarrativeStep ==
    /\ story_step = "narrative"
    /\ story_i <= Len(candidates)
    /\ CurSymbol # ""
    /\ \E o \in LlmOutcomes :
          LET p == PromptText("narrative_generator", CurSymbol, <<>>, <<>>)
              r == InvokeLlmWithTrace(o)
          IN  /\ narrative_json' = r.parsed
              /\ timeline_json' = <<>>
              /\ story_card' = EmptyCard
              /\ err_msg' = r.err
              /\ prompt_io' = [EmptyIo EXCEPT !["narrative_generator"] = IoEntry(p, r)]
              /\ llm_calls' = <<Call("narrative_generator", p, o, r)>>
    /\ story_step' = "timeline"
    /\ UNCHANGED <<candidates, story_i, story_by_symbol>>

\* Lines 427-449.
TimelineStep ==
    /\ story_step = "timeline"
    /\ IF Truthy(narrative_json)
       THEN \E o \in LlmOutcomes :
              LET p == PromptText("timeline_catalyst", CurSymbol, narrative_json, <<>>)
                  r == InvokeLlmWithTrace(o)
              IN  /\ timeline_json' = r.parsed
                  /\ err_msg' = IF r.raised /\ err_msg = <<>> THEN r.err ELSE err_msg
                  /\ prompt_io' = [prompt_io EXCEPT !["timeline_catalyst"] = IoEntry(p, r)]
                  /\ llm_calls' = Append(llm_calls, Call("timeline_catalyst", p, o, r))
       ELSE UNCHANGED <<timeline_json, err_msg, prompt_io, llm_calls>>
    /\ story_step' = "synthesizer"
    /\ UNCHANGED <<candidates, story_i, narrative_json, story_card, story_by_symbol>>

\* Lines 451-483.
SynthesizerStep ==
    /\ story_step = "synthesizer"
    /\ IF Truthy(narrative_json) /\ Truthy(timeline_json)
       THEN \E o \in LlmOutcomes :
              LET p == PromptText("story_synthesizer", CurSymbol, narrative_json, timeline_json)
                  r == InvokeLlmWithTrace(o)
              IN  /\ story_card' = [EmptyCard EXCEPT !.obj = r.parsed]
                  /\ err_msg' = IF r.raised /\ err_msg = <<>> THEN r.err ELSE err_msg
                  /\ prompt_io' = [prompt_io EXCEPT !["story_synthesizer"] = IoEntry(p, r)]
                  /\ llm_calls' = Append(llm_calls, Call("story_synthesizer", p, o, r))
       ELSE UNCHANGED <<story_card, err_msg, prompt_io, llm_calls>>
    /\ story_step' = "store"
    /\ UNCHANGED <<candidates, story_i, narrative_json, timeline_json, story_by_symbol>>

\* Lines 485-506: the placeholder replaces an empty story card, the symbol's
\* record is stored, the loop goes on.
StoreSymbol ==
    /\ story_step = "store"
    /\ LET card == IF ~Truthy(story_card.obj) THEN PlaceholderCard(err_msg) ELSE story_card
       IN  /\ story_card' = card
           /\ story_by_symbol' =
                 [story_by_symbol EXCEPT ![CurSymbol] =
                     [present |-> TRUE, narrative_json |-> narrative_json,
                      timeline_json |-> timeline_json, story_card |-> card,
                      prompt_io |-> prompt_io, calls |-> llm_calls]]
    /\ story_i' = story_i + 1
    /\ story_step' = "narrative"
    /\ UNCHANGED <<candidates, narrative_json, timeline_json, err_msg, prompt_io, llm_calls>>

StoryInit ==
    /\ candidates \in UNION {[1..n -> Symbols] : n \in 1..MaxCandidates}
    /\ story_i = 1
    /\ story_step = "narrative"
    /\ narrative_json = <<>>
    /\ timeline_json = <<>>
    /\ story_card = EmptyCard
    /\ err_msg = <<>>
    /\ prompt_io = EmptyIo
    /\ story_by_symbol = [s \in Symbols \ {""} |-> NoRecord]
    /\ llm_calls = <<>>

StoryNext ==
    \/ SkipSymbol /\ UNCHANGED <<poolVars, fineVars, trackVars, calibVars, screenVars, reviewVars, raceVars, dedupeVars, stageVars, statusVars, iterVars, tplVars>>
    \/ NarrativeStep /\ UNCHANGED <<poolVars, fineVars, trackVars, calibVars, screenVars, reviewVars, raceVars, dedupeVars, stageVars, statusVars, iterVars, tplVars>>
    \/ TimelineStep /\ UNCHANGED <<poolVars, fineVars, trackVars, calibVars, screenVars, reviewVars, raceVars, dedupeVars, stageVars, statusVars, iterVars, tplVars>>
    \/ SynthesizerStep /\ UNCHANGED <<poolVars, fineVars, trackVars, calibVars, screenVars, reviewVars, raceVars, dedupeVars, stageVars, statusVars, iterVars, tplVars>>
    \/ StoreSymbol /\ UNCHANGED <<poolVars, fineVars, trackVars, calibVars, screenVars, reviewVars, raceVars, dedupeVars, stageVars, statusVars, iterVars, tplVars>>

StoryStart == StoryInit /\ PoolIdle /\ FineIdle /\ TrackIdle /\ CalibIdle /\ ScreenIdle /\ ReviewIdle /\ RaceIdle /\ DedupeIdle /\ StageIdle /\ StatusIdle /\ IterIdle /\ TplIdle

SpecStory == StoryStart /\ [][StoryNext]_vars

\* ------------------------------------------------------------------------
\* Claims about the story engine
\* ------------------------------------------------------------------------

\* No step is invoked twice, and a call whose step raised is the last call
\* made for the symbol.
FailureEndsCalls(calls) ==
    /\ \A j, k \in 1..Len(calls) : j < k => calls[j].step # calls[k].step
    /\ \A k \in 1..Len(calls) : calls[k].failed => k = Len(calls)

\* The card is the placeholder and the text is part of one of its data_gaps.
PlaceholderWith(card, text) ==
    /\ card.placeholder
    /\ card.obj = <<>>
    /\ \E g \in Range(card.data_gaps) : IsInfix(text, g)

\* C2: for every symbol, when one of the three LLM steps raises (llm.invoke
\* raises, or no JSON can be extracted from the response), that step is not
\* invoked again and no later step is invoked for the symbol (so after a
\* narrative_generator failure neither timeline_catalyst nor
\* story_synthesizer runs), and the story_card stored for the symbol is the
\* placeholder whose data_gaps contains the text of the caught error.
C2_FailureShortCircuits ==
    /\ FailureEndsCalls(llm_calls)
    /\ \A s \in DOMAIN story_by_symbol :
          LET rec == story_by_symbol[s]
          IN  rec.present =>
                /\ FailureEndsCalls(rec.calls)
                /\ \A k \in 1..Len(rec.calls) :
                      rec.calls[k].failed =>
                         PlaceholderWith(rec.story_card, rec.calls[k].err)

\* C2 witness: one symbol's record was stored after narrative_generator
\* raised with a message, another's after timeline_catalyst's response held
\* no JSON object; each made no further call and carries its error text.
C2_Witness ==
    /\ story_step = "idle" \/ story_i > Len(candidates)
    /\ \E s, t \in DOMAIN story_by_symbol :
          LET a == story_by_symbol[s]
              b == story_by_symbol[t]
          IN  /\ a.present /\ b.present
              /\ Len(a.calls) = 1
              /\ a.calls[1].step = "narrative_generator"
              /\ a.calls[1].failed /\ ~a.calls[1].answered
              /\ a.story_card.data_gaps = <<<<"timeout">>>>
              /\ Len(b.calls) = 2
              /\ b.calls[2].step = "timeline_catalyst"
              /\ b.calls[2].failed /\ b.calls[2].answered
              /\ b.story_card.placeholder
              /\ b.story_card.data_gaps = <<NoJsonText>>

\* C3 as stated: for every step invoked for a symbol, the step's prompt_io
\* entry holds the prompt text that was sent and the response text that was
\* received, verbatim, whether the step succeeded or failed, and for a step
\* that succeeded the parsed JSON next to them.
C3_PromptIoVerbatim ==
    \A k \in 1..Len(llm_calls) :
        LET c == llm_calls[k]
            e == prompt_io[c.step]
        IN  /\ e.present
            /\ e.prompt_text = c.prompt
            /\ c.answered => e.raw_response = c.content
            /\ ~c.failed => e.parsed = ExtractJson(c.content).parsed

\* How often a step was invoked in a record's calls.
Invoked(calls, step) == Cardinality({k \in 1..Len(calls) : calls[k].step = step})

\* The step was invoked and returned without raising.
Succeeded(calls, step) ==
    \E k \in 1..Len(calls) : calls[k].step = step /\ ~calls[k].failed

\* What the step's successful call parsed from the response.
ParsedOf(calls, step) ==
    LET k == CHOOSE j \in 1..Len(calls) : calls[j].step = step
    IN  ExtractJson(calls[k].content).parsed

\* The calls are made in the order narrative, timeline, synthesizer.
StepRank(step) ==
    CASE step = "narrative_generator" -> 1
      [] step = "timeline_catalyst" -> 2
      [] OTHER -> 3

InStepOrder(calls) ==
    \A j, k \in 1..Len(calls) : j < k => StepRank(calls[j].step) < StepRank(calls[k].step)

\* What does hold of every stored record: a later step runs exactly when the
\* earlier steps returned a non-empty object, and the stored card is the
\* synthesizer's object exactly when that is non-empty.
StepsFollowNonEmpty ==
    \A s \in DOMAIN story_by_symbol :
        LET rec == story_by_symbol[s]
            narr == Succeeded(rec.calls, "narrative_generator")
                    /\ ParsedOf(rec.calls, "narrative_generator") # <<>>
            tl == Succeeded(rec.calls, "timeline_catalyst")
                  /\ ParsedOf(rec.calls, "timeline_catalyst") # <<>>
            syn == Succeeded(rec.calls, "story_synthesizer")
                   /\ ParsedOf(rec.calls, "story_synthesizer") # <<>>
        IN  rec.present =>
              /\ Invoked(rec.calls, "narrative_generator") = 1
              /\ Invoked(rec.calls, "timeline_catalyst") = (IF narr THEN 1 ELSE 0)
              /\ Invoked(rec.calls, "story_synthesizer") = (IF narr /\ tl THEN 1 ELSE 0)
              /\ InStepOrder(rec.calls)
              /\ IF syn
                 THEN rec.story_card = [EmptyCard EXCEPT
                                           !.obj = ParsedOf(rec.calls, "story_synthesizer")]
                 ELSE rec.story_card.placeholder

\* C25 as stated: for every symbol, timeline_catalyst is invoked exactly once
\* if and only if narrative_generator returned successfully, whatever JSON
\* object it parsed, and otherwise not at all; story_synthesizer is invoked
\* exactly once if and only if both earlier steps returned successfully; the
\* calls are made in the order narrative, timeline, synthesizer; and when
\* story_synthesizer returned successfully the stored story_card is the
\* object it parsed, not the placeholder.
C25_AdvancesOnSuccess ==
    \A s \in DOMAIN story_by_symbol :
        LET rec == story_by_symbol[s]
            narr == Succeeded(rec.calls, "narrative_generator")
            tl == Succeeded(rec.calls, "timeline_catalyst")
        IN  rec.present =>
              /\ Invoked(rec.calls, "timeline_catalyst") = (IF narr THEN 1 ELSE 0)
              /\ Invoked(rec.calls, "story_synthesizer") = (IF narr /\ tl THEN 1 ELSE 0)
              /\ InStepOrder(rec.calls)
              /\ Succeeded(rec.calls, "story_synthesizer") =>
                    /\ ~rec.story_card.placeholder
                    /\ rec.story_card.obj = ParsedOf(rec.calls, "story_synthesizer")

\* scripts/validate_story_result.py, lines 48-62: the record's prompt_io has
\* the step, as a mapping with prompt_input, prompt_text, raw_response and
\* parsed (both branches of every step write all four).
ValidatorAccepts(rec) == \A step \in StepNames : rec.prompt_io[step].present

\* What does hold: a step has its prompt_io entry exactly when it was invoked,
\* and narrative_generator always is.
EntryIffInvoked ==
    \A s \in DOMAIN story_by_symbol :
        LET rec == story_by_symbol[s]
        IN  rec.present =>
              /\ rec.prompt_io["narrative_generator"].present
              /\ \A step \in StepNames :
                    rec.prompt_io[step].present <=> Invoked(rec.calls, step) = 1

\* C26 as stated: every per-symbol record of run_story_analysis_2layer passes
\* the story-result validator: its prompt_io holds all three steps, each a
\* mapping with the keys prompt_input, prompt_text, raw_response and parsed,
\* whichever steps succeeded or failed.
C26_RecordPassesValidator ==
    \A s \in DOMAIN story_by_symbol :
        story_by_symbol[s].present => ValidatorAccepts(story_by_symbol[s])

\* ------------------------------------------------------------------------
\* Fine filter: data
\* ------------------------------------------------------------------------

MaxFine == 2        \* candidates given to analyze_candidates

\* "板块", "sector", "multiplier", "leader_status"
SectorKeywords == {"bankuai", "sector", "multiplier", "leader_status"}

\* "启动", "加速", "调整", "二次启动"
StageTypes == {"qidong", "jiasu", "tiaozheng", "erci_qidong"}

\* "趋势", "情绪", "混合"
ConclusionTypes == {"trend", "emotion", "mixed"}

\* Candidates.  Prices and percentages are in 0.01.  A missing sector or
\* leader status is "" (the .get default), missing sector numbers are "None".
\*   f1: no sector fields of its own, 9 % up above both averages
\*   f2: sector fields merged into the item, 6 % up above MA5, MA5 below MA10
\*   f3: no sector fields, 5.5 % up, close below both averages
FineItems ==
    { [symbol |-> "f1", change_pct |-> 900, last_close |-> 1100, ma5 |-> 1050, ma10 |-> 1000,
       sector |-> "", stats |-> "None", leader_status |-> ""],
      [symbol |-> "f2", change_pct |-> 600, last_close |-> 1100, ma5 |-> 1050, ma10 |-> 1080,
       sector |-> "sec_item", stats |-> "stats_item", leader_status |-> "follower"],
      [symbol |-> "f3", change_pct |-> 550, last_close |-> 900, ma5 |-> 950, ma10 |-> 1000,
       sector |-> "", stats |-> "None", leader_status |-> ""] }

NoCtx == [present |-> FALSE, sector |-> "", stats |-> "None", leader_status |-> ""]

\* sector_context_by_symbol: None, or a map that knows f1's sector.
SectorMaps ==
    { [s \in {"f1", "f2", "f3"} |-> NoCtx],
      [s \in {"f1", "f2", "f3"} |->
          IF s = "f1"
          THEN [present |-> TRUE, sector |-> "sec_map", stats |-> "stats_map",
                leader_status |-> "leader"]
          ELSE NoCtx] }

\* Evidence entries, as token sequences.
EvPlain == <<"txt">>

EvSector == <<"txt", "sector", "txt">>

EvEmpty == <<>>

\* obj.get(...) of a key the object lacks
Absent == ""

EmptyObj == [conclusion_type |-> Absent, stage |-> Absent, evidence_chain |-> <<>>]

\* The JSON bodies a response may hold, by name.
JsonBodies ==
    [ good |-> [conclusion_type |-> "trend", stage |-> "jiasu",
                evidence_chain |-> <<EvPlain, EvSector, EvPlain>>],
      no_keyword |-> [conclusion_type |-> "emotion", stage |-> "qidong",
                      evidence_chain |-> <<EvPlain, EvPlain, EvPlain>>],
      one_entry |-> [conclusion_type |-> Absent, stage |-> Absent,
                     evidence_chain |-> <<EvPlain>>],
      four_entries |-> [conclusion_type |-> "mixed", stage |-> "tiaozheng",
                        evidence_chain |-> <<EvPlain, EvPlain, EvPlain, EvSector>>],
      blank_entries |-> [conclusion_type |-> "trend", stage |-> "qidong",
                         evidence_chain |-> <<EvSector, EvEmpty, EvEmpty>>],
      no_chain |-> [conclusion_type |-> "trend", stage |-> "erci_qidong",
                    evidence_chain |-> <<>>],
      bad_stage |-> [conclusion_type |-> "trend", stage |-> "unknown_stage",
                     evidence_chain |-> <<EvPlain, EvSector, EvPlain>>] ]

\* Response contents: a fenced object, bare objects, {}, prose, two objects.
FineContents ==
    { <<"ws", "fence", "txt", "{", "good", "}", "fence", "ws">> }
    \cup {<<"{", b, "}">> : b \in DOMAIN JsonBodies \ {"good"}}
    \cup { <<"{", "}">>, <<"txt">>, <<"{", "good", "}", "{", "good", "}">> }

\* str(exc) of what llm.invoke raises
FineInvokeErrors == {<<"rate_limited">>}

\* str(exc) of what _build_llm raises
BuildErrorText == <<"llm_init_failed">>

\* "No JSON object found in LLM response"
FineNoJsonText == <<"no_json_object_found_in_llm_response">>

\* str(exc) of pydantic's ValidationError
ValidationErrorText == <<"validation_error">>

FineOutcomes ==
    {[raised |-> TRUE, err |-> e, content |-> <<>>] : e \in FineInvokeErrors}
    \cup {[raised |-> FALSE, err |-> <<>>, content |-> c] : c \in FineContents}

\* text.strip("`")
RECURSIVE StripFences(_)
StripFences(text) ==
    IF Len(text) > 0 /\ text[1] = "fence" THEN StripFences(Tail(text))
    ELSE IF Len(text) > 0 /\ text[Len(text)] = "fence"
         THEN StripFences(SubSeq(text, 1, Len(text) - 1))
         ELSE text

\* json.loads of a slice "{ ... }"
FineJsonLoads(slice) ==
    LET inner == SubSeq(slice, 2, Len(slice) - 1)
    IN  IF inner = <<>>
        THEN [raised |-> FALSE, err |-> <<>>, obj |-> EmptyObj]
        ELSE IF Len(inner) = 1 /\ inner[1] \in DOMAIN JsonBodies
             THEN [raised |-> FALSE, err |-> <<>>, obj |-> JsonBodies[inner[1]]]
             ELSE [raised |-> TRUE, err |-> JsonDecodeText, obj |-> EmptyObj]

\* _extract_json of fine_filter_engine.py
FineExtractJson(text) ==
    LET t1 == Strip(text)
        t2 == IF Len(t1) > 0 /\ t1[1] = "fence" THEN StripFences(t1) ELSE t1
        start == Find(t2, "{")
        end == RFind(t2, "}")
    IN  IF start = 0 \/ end = 0 \/ end <= start
        THEN [raised |-> TRUE, err |-> FineNoJsonText, obj |-> EmptyObj]
        ELSE FineJsonLoads(SubSeq(t2, start, end))

\* ------------------------------------------------------------------------
\* Fine filter: cards
\* ------------------------------------------------------------------------

\* _build_sector_payload: the context map first, the item's own fields else.
BuildSectorPayload(item, ctx) ==
    IF ctx.present
    THEN [sector |-> ctx.sector, stats |-> ctx.stats, leader_status |-> ctx.leader_status]
    ELSE [sector |-> item.sector, stats |-> item.stats, leader_status |-> item.leader_status]

\* {**item, **sector_payload}
WithSector(item, payload) ==
    [item EXCEPT !.sector = payload.sector, !.stats = payload.stats,
                 !.leader_status = payload.leader_status]

\* Mutant: the test for an adjustment comes before the test for a start.
FallbackStage_AdjustFirst(it) ==
    IF it.change_pct >= 800 /\ it.last_close >= it.ma5 /\ it.ma5 >= it.ma10 THEN "jiasu"
    ELSE IF it.last_close < it.ma10 THEN "tiaozheng"
    ELSE IF it.change_pct > 0 /\ it.last_close >= it.ma5 THEN "qidong"
    ELSE "erci_qidong"

\* The stage of _fallback_decision, lines 76-83.
FallbackStage(it) ==
    IF it.change_pct >= 800 /\ it.last_close >= it.ma5 /\ it.ma5 >= it.ma10 THEN "jiasu"
    ELSE IF it.change_pct > 0 /\ it.last_close >= it.ma5 THEN "qidong"
    ELSE IF it.last_close < it.ma10 THEN "tiaozheng"
    ELSE "erci_qidong"

\* The third entry of the fallback chain, lines 93-96.
FallbackSectorEntry(it) ==
    <<"bankuai", IF it.sector = "" THEN "unknown_sector" ELSE it.sector,
      "day_strength", it.stats, "trend_3d", it.stats, "multiplier", it.stats,
      "leader_status", IF it.leader_status = "" THEN "unknown_leader" ELSE it.leader_status>>

FallbackEvidence(it) ==
    << <<"change_pct_text", it.symbol>>, <<"trend_text", it.symbol>>, FallbackSectorEntry(it) >>

\* _fallback_decision
FallbackDecision(it) ==
    [symbol |-> it.symbol, conclusion_type |-> "trend", stage |-> FallbackStage(it),
     evidence_chain |-> FallbackEvidence(it)]

\* " ".join(chain)
RECURSIVE JoinEvidence(_)
JoinEvidence(chain) ==
    IF chain = <<>> THEN <<>>
    ELSE IF Len(chain) = 1 THEN chain[1]
    ELSE chain[1] \o <<"sp">> \o JoinEvidence(Tail(chain))

HasSectorKeyword(chain) ==
    \E k \in SectorKeywords : IsInfix(<<k>>, JoinEvidence(chain))

\* The entry _ensure_sector_evidence appends, lines 131-138.
RepairEntry(payload) ==
    <<"bankuai", "sector", payload.sector, "day_strength", payload.stats,
      "trend_3d", payload.stats, "multiplier", payload.stats,
      "leader_status", payload.leader_status>>

\* chain[:n]
Take(chain, n) == SubSeq(chain, 1, Min(n, Len(chain)))

\* _ensure_sector_evidence
EnsureSectorEvidence(chain, payload) ==
    IF HasSectorKeyword(chain) THEN chain
    ELSE Append(Take(chain, 2), RepairEntry(payload))

\* Lines 326-344: the card built from a parsed response, or the schema error.
AiCard(item, payload, obj) ==
    LET conclusion == IF obj.conclusion_type = Absent THEN "mixed" ELSE obj.conclusion_type
        stage == IF obj.stage = Absent THEN "qidong" ELSE obj.stage
        ec0 == Take(obj.evidence_chain, 3)
        ec1 == IF ec0 # <<>> THEN ec0 ELSE FallbackDecision(item).evidence_chain
        ec2 == EnsureSectorEvidence(ec1, payload)
        ec3 == IF Len(ec2) < 3
               THEN FallbackDecision(WithSector(item, payload)).evidence_chain
               ELSE ec2
    IN  IF conclusion \notin ConclusionTypes \/ stage \notin StageTypes
        THEN [raised |-> TRUE, err |-> ValidationErrorText,
              card |-> FallbackDecision(WithSector(item, payload))]
        ELSE [raised |-> FALSE, err |-> <<>>,
              card |-> [symbol |-> item.symbol, conclusion_type |-> conclusion,
                        stage |-> stage, evidence_chain |-> ec3]]

\* The try block of lines 307-345 for the outcome o of llm.invoke.
AiAttempt(item, payload, o) ==
    IF o.raised
    THEN [raised |-> TRUE, err |-> o.err, card |-> FallbackDecision(WithSector(item, payload))]
    ELSE LET x == FineExtractJson(o.content)
         IN  IF x.raised
             THEN [raised |-> TRUE, err |-> x.err,
                   card |-> FallbackDecision(WithSector(item, payload))]
             ELSE AiCard(item, payload, x.obj)

NoTrace == [mode |-> "", error |-> <<>>]

\* ------------------------------------------------------------------------
\* Fine filter: analyze_candidates
\* ------------------------------------------------------------------------

\* `llm is None`: AI is switched off, or _build_llm raised.
LlmIsNone == fine_llm \in {"disabled", "build_raised"}

\* Lines 287-297.
BuildLlm ==
    /\ fine_pc = "build"
    /\ \E enable_ai \in BOOLEAN, build_raises \in BOOLEAN :
          fine_llm' = IF ~enable_ai THEN "disabled"
                      ELSE IF build_raises THEN "build_raised" ELSE "ready"
    /\ fine_pc' = "loop"
    /\ cards' = <<>>
    /\ trace_by_symbol' = [s \in {"f1", "f2", "f3"} |-> NoTrace]
    /\ UNCHANGED <<fine_candidates, fine_map, fine_i, fine_log, fine_out>>

\* One pass of the loop of lines 299-350.
AnalyzeOne ==
    /\ fine_pc = "loop"
    /\ fine_i <= Len(fine_candidates)
    /\ LET item == fine_candidates[fine_i]
           payload == BuildSectorPayload(item, fine_map[item.symbol])
       IN  IF LlmIsNone
           THEN /\ cards' = Append(cards, FallbackDecision(WithSector(item, payload)))
                /\ trace_by_symbol' =
                      [trace_by_symbol EXCEPT ![item.symbol] = [mode |-> "fallback", error |-> <<>>]]
                /\ fine_log' = Append(fine_log,
                      [path |-> fine_llm,
                       err |-> IF fine_llm = "build_raised" THEN BuildErrorText ELSE <<>>,
                       content |-> <<>>])
           ELSE \E o \in FineOutcomes :
                  LET a == AiAttempt(item, payload, o)
                  IN  /\ cards' = Append(cards, a.card)
                      /\ trace_by_symbol' =
                            [trace_by_symbol EXCEPT ![item.symbol] =
                                [mode |-> IF a.raised THEN "fallback" ELSE "ai",
                                 error |-> a.err]]
                      /\ fine_log' = Append(fine_log,
                            [path |-> IF a.raised THEN "ai_failed" ELSE "ai",
                             err |-> a.err, content |-> o.content])
    /\ fine_i' = fine_i + 1
    /\ UNCHANGED <<fine_candidates, fine_map, fine_pc, fine_llm, fine_out>>

\* Lines 352-366.
FineReturn ==
    /\ fine_pc = "loop"
    /\ fine_i > Len(fine_candidates)
    /\ fine_out' = [decision_cards |-> cards, analysis_trace |-> trace_by_symbol]
    /\ fine_pc' = "done"
    /\ UNCHANGED <<fine_candidates, fine_map, fine_llm, fine_i, cards, trace_by_symbol, fine_log>>

\* Candidate lists: up to MaxFine different candidates.
FineCandidateLists ==
    {c \in UNION {[1..n -> FineItems] : n \in 1..MaxFine} :
        \A j, k \in 1..Len(c) : j # k => c[j] # c[k]}

FineInit ==
    /\ fine_candidates \in FineCandidateLists
    /\ fine_map \in SectorMaps
    /\ fine_pc = "build"
    /\ fine_llm = "unset"
    /\ fine_i = 1
    /\ cards = <<>>
    /\ trace_by_symbol = <<>>
    /\ fine_log = <<>>
    /\ fine_out = <<>>

FineNext ==
    \/ BuildLlm /\ UNCHANGED <<poolVars, storyVars, trackVars, calibVars, screenVars, reviewVars, raceVars, dedupeVars, stageVars, statusVars, iterVars, tplVars>>
    \/ AnalyzeOne /\ UNCHANGED <<poolVars, storyVars, trackVars, calibVars, screenVars, reviewVars, raceVars, dedupeVars, stageVars, statusVars, iterVars, tplVars>>
    \/ FineReturn /\ UNCHANGED <<poolVars, storyVars, trackVars, calibVars, screenVars, reviewVars, raceVars, dedupeVars, stageVars, statusVars, iterVars, tplVars>>

FineStart == FineInit /\ PoolIdle /\ StoryIdle /\ TrackIdle /\ CalibIdle /\ ScreenIdle /\ ReviewIdle /\ RaceIdle /\ DedupeIdle /\ StageIdle /\ StatusIdle /\ IterIdle /\ TplIdle

SpecFine == FineStart /\ [][FineNext]_vars

\* ------------------------------------------------------------------------
\* Claims about the fine filter
\* ------------------------------------------------------------------------

\* C4 as stated: every decision card analyze_candidates builds, on every
\* path, has an evidence_chain of exactly 3 entries, none of them empty, and
\* at least one entry contains one of the sector keywords.
C4_EvidenceChain ==
    \A k \in 1..Len(cards) :
        LET chain == cards[k].evidence_chain
        IN  /\ Len(chain) = 3
            /\ \A j \in 1..3 : chain[j] # <<>>
            /\ \E j \in 1..3, w \in SectorKeywords : IsInfix(<<w>>, chain[j])

\* C5 as stated: analyze_candidates gets through every candidate; there is
\* one card per candidate handled, in input order; where the AI path failed
\* (LLM construction, invoke, JSON extraction, schema) the card is the
\* rule-based fallback card and the trace records mode "fallback" with the
\* text of the error; mode "ai" is recorded only for a card built from a
\* parsed response.
C5_FallbackTrace ==
    /\ Len(cards) = Len(fine_log)
    /\ fine_pc = "loop" => Len(cards) = fine_i - 1
    /\ fine_pc = "done" =>
          /\ Len(fine_out.decision_cards) = Len(fine_candidates)
          /\ fine_out.analysis_trace = trace_by_symbol
    /\ \A k \in 1..Len(cards) :
          LET item == fine_candidates[k]
              payload == BuildSectorPayload(item, fine_map[item.symbol])
              trace == trace_by_symbol[item.symbol]
          IN  /\ cards[k].symbol = item.symbol
              /\ fine_log[k].path \in {"build_raised", "ai_failed"} =>
                    /\ cards[k] = FallbackDecision(WithSector(item, payload))
                    /\ trace = [mode |-> "fallback", error |-> fine_log[k].err]
              /\ trace.mode = "ai" =>
                    /\ fine_log[k].path = "ai"
                    /\ ~FineExtractJson(fine_log[k].content).raised

\* The entries of a card's chain that the engine wrote itself: the third
\* entry of the fallback chain or the entry of the repair step (no entry of a
\* response starts like them).
SynthesizedEntries(card) ==
    {e \in Range(card.evidence_chain) : Len(e) > 0 /\ e[1] = "bankuai"}

\* The entry names the sector, the numbers and the leader status of ctx.
CarriesContext(e, ctx) == e \in {FallbackSectorEntry(ctx), RepairEntry(ctx)}

\* The response of card i was parsed and its evidence_chain was empty or absent.
EmptyChainReturned(i) ==
    /\ fine_log[i].path = "ai"
    /\ FineExtractJson(fine_log[i].content).obj.evidence_chain = <<>>

\* What does hold: the synthesized entry carries the supplied context on
\* every path but the one of a response without evidence_chain.
ContextCarriedUnlessEmptyChain ==
    \A i \in 1..Len(cards) :
        LET ctx == fine_map[fine_candidates[i].symbol]
        IN  ctx.present /\ ~EmptyChainReturned(i) =>
               \A e \in SynthesizedEntries(cards[i]) : CarriesContext(e, ctx)

\* C30 as stated: whenever the sector entry of a card's evidence chain was
\* written by the engine itself (by the repair step or by taking the fallback
\* chain, also when the response held an empty evidence_chain) and
\* sector_context_by_symbol holds a context for the symbol, the entry carries
\* that context's sector name, day_strength, trend_3d, multiplier and
\* leader_status, never the unknown_sector/None defaults.
C30_SectorEntryFromContext ==
    \A i \in 1..Len(cards) :
        LET ctx == fine_map[fine_candidates[i].symbol]
        IN  ctx.present =>
               \A e \in SynthesizedEntries(cards[i]) : CarriesContext(e, ctx)

\* ------------------------------------------------------------------------
\* Tracker: data
\* ------------------------------------------------------------------------

MaxForward == 3     \* trading rows after the source date in a fetched history

\* The symbols of the tracking targets; a batch lists each at most once.
TrackSymbols == {"a", "b"}

\* Close prices, in 0.01: against a source close of 10.00 a drawdown of
\* exactly 8 %, of 7 % and of 5 %, and no change.
Closes == {920, 930, 950, 1000}

\* Dates are days counted from the target's source_trade_date.
SourceDay == 0

\* None
Null == [null |-> TRUE, v |-> 0]

Some(x) == [null |-> FALSE, v |-> x]

\* n / d rounded to the nearest integer, ties to even (round()), for d > 0.
RoundDiv(n, d) ==
    LET q == n \div d
        r2 == 2 * (n % d)
    IN  IF r2 < d THEN q
        ELSE IF r2 > d THEN q + 1
        ELSE IF q % 2 = 0 THEN q ELSE q + 1

\* _pct_change, in 0.001 %
PctChange(base, val) ==
    IF base <= 0 THEN Null ELSE Some(RoundDiv(100000 * (val - base), base))

RECURSIVE MinOf(_)
MinOf(closes) ==
    IF Len(closes) = 1 THEN closes[1] ELSE Min(closes[1], MinOf(Tail(closes)))

\* Mutant: no forward close counts as no drawdown.
ComputeMdd_ZeroDefault(base, closes) ==
    IF base <= 0 \/ closes = <<>> THEN Some(0)
    ELSE Some(RoundDiv(100000 * (MinOf(closes) - base), base))

\* _compute_mdd, in 0.001 %
ComputeMdd(base, closes) ==
    IF base <= 0 \/ closes = <<>> THEN Null
    ELSE Some(RoundDiv(100000 * (MinOf(closes) - base), base))

\* Mutant: the row of the source date counts as a forward row.
IsForward_Inclusive(row, src) == row.date >= src

\* df["Date"] > src
IsForward(row, src) == row.date > src

RECURSIVE ForwardRows(_, _)
ForwardRows(df, src) ==
    IF df = <<>> THEN <<>>
    ELSE IF IsForward(df[1], src) THEN <<df[1]>> \o ForwardRows(Tail(df), src)
    ELSE ForwardRows(Tail(df), src)

\* _next_dates
NextDates(df, src, n) == Take(ForwardRows(df, src), n)

\* df[df["Date"] == source_date]
RECURSIVE SourceRows(_, _)
SourceRows(df, src) ==
    IF df = <<>> THEN <<>>
    ELSE IF df[1].date = src THEN <<df[1]>> \o SourceRows(Tail(df), src)
    ELSE SourceRows(Tail(df), src)

\* Mutant: without a source row the last row is the reference.
SourceClose_LastRow(df, src) ==
    IF df = <<>> THEN 0
    ELSE LET src_rows == SourceRows(df, src)
         IN  IF src_rows # <<>> THEN src_rows[Len(src_rows)].close ELSE df[Len(df)].close

\* Lines 209-219: the reference close.
SourceClose(df, src) ==
    IF df = <<>> THEN 0
    ELSE LET src_rows == SourceRows(df, src)
         IN  IF src_rows # <<>> THEN src_rows[Len(src_rows)].close ELSE df[1].close

\* Mutant: a record is removed only when both rules fire.
ShouldRemove_Both(big_drop, consecutive_down) == big_drop /\ consecutive_down

\* line 257
ShouldRemove(big_drop, consecutive_down) == big_drop \/ consecutive_down

\* Lines 221-258 and 260-281 for the history df.
Metric(symbol, df) ==
    LET source_close == SourceClose(df, SourceDay)
        rows == NextDates(df, SourceDay, 3)
        closes == [k \in 1..Len(rows) |-> rows[k].close]
        t1 == IF Len(closes) >= 1 THEN PctChange(source_close, closes[1]) ELSE Null
        t2 == IF Len(closes) >= 2 THEN PctChange(source_close, closes[2]) ELSE Null
        t3 == IF Len(closes) >= 3 THEN PctChange(source_close, closes[3]) ELSE Null
        mdd == ComputeMdd(source_close, closes)
        consecutive_down == IF Len(closes) >= 2
                            THEN closes[1] < source_close /\ closes[2] < closes[1]
                            ELSE FALSE
        big_drop == ~mdd.null /\ mdd.v <= -8000
    IN  [symbol |-> symbol, source_close |-> source_close,
         t1_return_pct |-> t1, t2_return_pct |-> t2, t3_return_pct |-> t3,
         mdd_3d_pct |-> mdd,
         should_remove |-> ShouldRemove(big_drop, consecutive_down),
         remove_reason |-> IF big_drop THEN "big_drop_in_3d"
                           ELSE IF consecutive_down THEN "consecutive_down" ELSE ""]

\* Forward rows on consecutive days, with any closes.
ForwardParts ==
    UNION {{[k \in 1..n |-> [date |-> SourceDay + k, close |-> c[k]]] : c \in [1..n -> Closes]} :
           n \in 0..MaxForward}

\* The source day's row: missing (not a trading day), or present.
SourceParts == {<<>>, <<[date |-> SourceDay, close |-> 1000]>>}

\* What _parse_csv gives for a fetched history, sorted by date.
Histories == {s \o f : s \in SourceParts, f \in ForwardParts}

\* get_china_stock_data: it raises, or it returns a history.
FetchOutcomes ==
    {[raised |-> TRUE, df |-> <<>>]} \cup {[raised |-> FALSE, df |-> h] : h \in Histories}

\* ------------------------------------------------------------------------
\* Tracker: track_three_day_metrics
\* ------------------------------------------------------------------------

\* One pass of the loop of lines 198-282.
TrackOne ==
    /\ track_pc = "loop"
    /\ track_i <= Len(targets)
    /\ \E o \in FetchOutcomes :
          LET df == IF o.raised THEN <<>> ELSE o.df
          IN  /\ metrics' = Append(metrics, Metric(targets[track_i], df))
              /\ fetched' = Append(fetched, o)
    /\ track_i' = track_i + 1
    /\ UNCHANGED <<targets, track_pc>>

\* Line 283.
TrackReturn ==
    /\ track_pc = "loop"
    /\ track_i > Len(targets)
    /\ track_pc' = "done"
    /\ UNCHANGED <<targets, track_i, metrics, fetched>>

\* The batches: no target, one, or both.  Each pass of the loop reads its own
\* target only, so the two symbols are listed in one order.
TargetLists ==
    {t \in UNION {[1..n -> TrackSymbols] : n \in 0..Cardinality(TrackSymbols)} :
        \A k \in 1..Len(t) : t[k] = <<"a", "b">>[k]}

TrackInit ==
    /\ targets \in TargetLists
    /\ track_pc = "loop"
    /\ track_i = 1
    /\ metrics = <<>>
    /\ fetched = <<>>

TrackNext ==
    \/ TrackOne /\ UNCHANGED <<poolVars, storyVars, fineVars, calibVars, screenVars, reviewVars, raceVars, dedupeVars, stageVars, statusVars, iterVars, tplVars>>
    \/ TrackReturn /\ UNCHANGED <<poolVars, storyVars, fineVars, calibVars, screenVars, reviewVars, raceVars, dedupeVars, stageVars, statusVars, iterVars, tplVars>>

TrackStart == TrackInit /\ PoolIdle /\ StoryIdle /\ FineIdle /\ CalibIdle /\ ScreenIdle /\ ReviewIdle /\ RaceIdle /\ DedupeIdle /\ StageIdle /\ StatusIdle /\ IterIdle /\ TplIdle

SpecTracker == TrackStart /\ [][TrackNext]_vars

\* ------------------------------------------------------------------------
\* Claims about the tracker
\* ------------------------------------------------------------------------

\* The number of rows of a fetched history dated strictly after the source date.
ForwardCount(o) ==
    IF o.raised THEN 0
    ELSE Cardinality({j \in 1..Len(o.df) : o.df[j].date > SourceDay})

ReturnPct(metric, k) ==
    IF k = 1 THEN metric.t1_return_pct
    ELSE IF k = 2 THEN metric.t2_return_pct
    ELSE metric.t3_return_pct

\* C6: for every metric produced and every k in 1..3, when the fetched
\* history holds fewer than k rows dated strictly after the source date,
\* t{k}_return_pct is null (not the number 0); and mdd_3d_pct is null when it
\* holds no such row.
C6_NullWhenNoForwardRow ==
    /\ Len(metrics) = Len(fetched)
    /\ \A i \in 1..Len(metrics) :
          /\ \A k \in 1..3 :
                ForwardCount(fetched[i]) < k =>
                   ReturnPct(metrics[i], k) = Null /\ ReturnPct(metrics[i], k) # Some(0)
          /\ ForwardCount(fetched[i]) = 0 => metrics[i].mdd_3d_pct = Null

\* C6 witness: the batch is done; one metric comes from a history with the
\* source row and a single forward row at the same close (a return of 0 for
\* day 1, null for days 2 and 3), another from a history with the source row
\* and no forward row (everything null).
C6_Witness ==
    /\ track_pc = "done"
    /\ \E i, j \in 1..Len(metrics) :
          /\ ForwardCount(fetched[i]) = 1
          /\ metrics[i].t1_return_pct = Some(0)
          /\ metrics[i].t2_return_pct = Null
          /\ metrics[i].t3_return_pct = Null
          /\ ~metrics[i].mdd_3d_pct.null
          /\ ~fetched[j].raised
          /\ Len(fetched[j].df) = 1
          /\ ForwardCount(fetched[j]) = 0
          /\ metrics[j].t1_return_pct = Null
          /\ metrics[j].mdd_3d_pct = Null

\* The closes of the rows of a fetched history dated after the source date,
\* oldest first.
ForwardCloses(o) ==
    IF o.raised THEN <<>>
    ELSE LET fwd == SelectSeq(o.df, LAMBDA row : row.date > SourceDay)
         IN  [k \in 1..Len(fwd) |-> fwd[k].close]

\* The metric's drawdown is known and is 8 % or more.
BigDrop(metric) == ~metric.mdd_3d_pct.null /\ metric.mdd_3d_pct.v <= -8000

\* Two forward rows exist, day 1 closed under the source close and day 2
\* under day 1.
TwoDownDays(metric, o) ==
    LET c == ForwardCloses(o)
    IN  Len(c) >= 2 /\ c[1] < metric.source_close /\ c[2] < c[1]

\* C15: for every metric, should_remove is true if and only if mdd_3d_pct
\* is non-null and <= -8, or at least two forward rows exist with day-1 close
\* < source close and day-2 close < day-1 close; remove_reason is non-empty
\* exactly when should_remove is true, and names the big drop whenever the
\* big drop holds.
C15_ShouldRemove ==
    \A i \in 1..Len(metrics) :
        LET big == BigDrop(metrics[i])
            down == TwoDownDays(metrics[i], fetched[i])
        IN  /\ metrics[i].should_remove <=> (big \/ down)
            /\ metrics[i].remove_reason # "" <=> metrics[i].should_remove
            /\ big => metrics[i].remove_reason = "big_drop_in_3d"
            /\ down /\ ~big => metrics[i].remove_reason = "consecutive_down"

\* C15 witness: the batch is done; one metric is removed for two down days
\* alone (drawdown 7 %), the other for a drawdown of exactly 8 % on its only
\* forward day.
C15_Witness ==
    /\ track_pc = "done"
    /\ \E i, j \in 1..Len(metrics) :
          /\ metrics[i].should_remove
          /\ metrics[i].mdd_3d_pct = Some(-7000)
          /\ metrics[i].remove_reason = "consecutive_down"
          /\ metrics[j].should_remove
          /\ ForwardCount(fetched[j]) = 1
          /\ metrics[j].mdd_3d_pct = Some(-8000)
          /\ metrics[j].remove_reason = "big_drop_in_3d"

\* ---- C19 ----
\* The close of the row dated source_trade_date, when the history has one.
SourceRowClose(o) ==
    IF o.raised THEN Null
    ELSE LET src == SelectSeq(o.df, LAMBDA row : row.date = SourceDay)
         IN  IF src = <<>> THEN Null ELSE Some(src[Len(src)].close)

\* The percentage change from base to val, to three decimals (in 0.001 %).
PercentChange(base, val) == RoundDiv(100000 * (val - base), base)

\* Every known return of metric i is the change of the k-th forward close
\* against the recorded source_close.
ReturnsAgainstSourceClose(i) ==
    \A k \in 1..3 :
        ~ReturnPct(metrics[i], k).null =>
            /\ k <= Len(ForwardCloses(fetched[i]))
            /\ metrics[i].source_close > 0
            /\ ReturnPct(metrics[i], k).v =
                  PercentChange(metrics[i].source_close, ForwardCloses(fetched[i])[k])

\* C19 as stated: every non-null t1/t2/t3_return_pct of a metric is the
\* percentage change of the k-th forward row's close relative to the close of
\* the row dated source_trade_date, which is the recorded source_close, for
\* every fetched history, the ones without a row for the source date included.
C19_Original ==
    \A i \in 1..Len(metrics) :
        /\ ReturnsAgainstSourceClose(i)
        /\ (\E k \in 1..3 : ~ReturnPct(metrics[i], k).null) =>
              metrics[i].source_close = SourceRowClose(fetched[i]).v
              /\ ~SourceRowClose(fetched[i]).null

\* C19, amended: every non-null return is the percentage change of the k-th
\* forward row's close relative to the recorded source_close; source_close is
\* the close of the row dated source_trade_date when the history has one, and
\* the close of the history's first row when it has none (0 for no history).
C19_ReturnsRelativeToSourceClose ==
    \A i \in 1..Len(metrics) :
        /\ ReturnsAgainstSourceClose(i)
        /\ metrics[i].source_close =
              IF ~SourceRowClose(fetched[i]).null THEN SourceRowClose(fetched[i]).v
              ELSE IF fetched[i].raised \/ fetched[i].df = <<>> THEN 0
              ELSE fetched[i].df[1].close

\* C19 witness: the batch is done; one history has no row for the source
\* date and two forward rows closing 9.20 and 9.50, so that the returns are
\* taken against 9.20 (0 % and 3.261 %); another has the source row.
C19_Witness ==
    /\ track_pc = "done"
    /\ \E i, j \in 1..Len(metrics) :
          /\ SourceRowClose(fetched[i]).null
          /\ ForwardCloses(fetched[i]) = <<920, 950>>
          /\ metrics[i].source_close = 920
          /\ metrics[i].t1_return_pct = Some(0)
          /\ metrics[i].t2_return_pct = Some(3261)
          /\ SourceRowClose(fetched[j]) = Some(1000)
          /\ ForwardCloses(fetched[j]) = <<950>>
          /\ metrics[j].t1_return_pct = Some(-5000)

\* ---- C22 ----
\* The history the loop works on after the try of lines 203-207.
OwnHistory(o) == IF o.raised THEN <<>> ELSE o.df

\* C22: track_three_day_metrics returns exactly one metric per target, in
\* target order; when the fetch or the parse of the price history fails for a
\* target, that target's metric has t1/t2/t3_return_pct and mdd_3d_pct null
\* and should_remove false; and every metric is what its own target's history
\* gives, whatever happened to the other targets of the batch.
C22_OneMetricPerTarget ==
    /\ Len(metrics) = Len(fetched)
    /\ Len(metrics) <= Len(targets)
    /\ track_pc = "done" => Len(metrics) = Len(targets)
    /\ \A i \in 1..Len(metrics) :
          /\ metrics[i].symbol = targets[i]
          /\ fetched[i].raised =>
                /\ metrics[i].t1_return_pct = Null
                /\ metrics[i].t2_return_pct = Null
                /\ metrics[i].t3_return_pct = Null
                /\ metrics[i].mdd_3d_pct = Null
                /\ metrics[i].should_remove = FALSE
          /\ metrics[i] = Metric(targets[i], OwnHistory(fetched[i]))

\* C22 witness: the batch of two is done; the fetch failed for the first
\* target and the second has all three returns and is removed.
C22_Witness ==
    /\ track_pc = "done"
    /\ Len(metrics) = 2
    /\ fetched[1].raised
    /\ metrics[1].mdd_3d_pct = Null
    /\ ~fetched[2].raised
    /\ ~metrics[2].t3_return_pct.null
    /\ metrics[2].should_remove

\* ------------------------------------------------------------------------
\* Sector calibrator
\* ------------------------------------------------------------------------

MaxCalib == 2       \* records in all_candidates

\* Records: change_pct and recent_3d_change in 0.01 %; industry "" is blank.
\*   x1, x5: two bank stocks at the same 10 % | x2: a weak bank stock
\*   x3: a tech stock with odd hundredths | x4: no industry, a deep 3-day fall
\*   x6: a tech stock strong on the day, its 3-day change under 8 %
CalibItems ==
    { [symbol |-> "x1", industry |-> "bank", change_pct |-> 1000, recent_3d_change |-> 1600],
      [symbol |-> "x2", industry |-> "bank", change_pct |-> 200, recent_3d_change |-> 400],
      [symbol |-> "x3", industry |-> "tech", change_pct |-> 501, recent_3d_change |-> 501],
      [symbol |-> "x4", industry |-> "", change_pct |-> 550, recent_3d_change |-> -5000],
      [symbol |-> "x5", industry |-> "bank", change_pct |-> 1000, recent_3d_change |-> 2001],
      [symbol |-> "x6", industry |-> "tech", change_pct |-> 1200, recent_3d_change |-> 500] }

SectorNames == {"bank", "tech", "unknown_sector"}

\* _norm_sector
NormSector(item) == IF item.industry = "" THEN "unknown_sector" ELSE item.industry

\* Multipliers are in 0.0001: 0.85, 1.15 and 1.0.
MomentumLo == 8500

MomentumHi == 11500

NeutralMomentum == 10000

\* sector_bucket[sector]
RECURSIVE Bucket(_, _)
Bucket(items, sector) ==
    IF items = <<>> THEN <<>>
    ELSE IF NormSector(items[1]) = sector
         THEN <<items[1]>> \o Bucket(Tail(items), sector)
         ELSE Bucket(Tail(items), sector)

RECURSIVE SumChange(_)
SumChange(items) ==
    IF items = <<>> THEN 0 ELSE items[1].change_pct + SumChange(Tail(items))

RECURSIVE Sum3d(_)
Sum3d(items) ==
    IF items = <<>> THEN 0 ELSE items[1].recent_3d_change + Sum3d(Tail(items))

\* Mutant: of the records with the largest change_pct the last one leads.
Leader_LastMax(items) ==
    LET k == CHOOSE k \in 1..Len(items) :
                /\ \A j \in 1..Len(items) : items[j].change_pct <= items[k].change_pct
                /\ \A j \in (k + 1)..Len(items) : items[j].change_pct < items[k].change_pct
    IN  items[k]

\* max(items, key=change_pct): the first record with the largest change_pct
Leader(items) ==
    LET k == CHOOSE k \in 1..Len(items) :
                /\ \A j \in 1..Len(items) : items[j].change_pct <= items[k].change_pct
                /\ \A j \in 1..(k - 1) : items[j].change_pct < items[k].change_pct
    IN  items[k]

\* Lines 34-39; day_strength is the mean SumChange / n, compared unrounded.
\* "强" strong, "分歧" split, "退潮" ebbing
LeaderStatus(items) ==
    IF SumChange(items) >= 600 * Len(items) /\ Leader(items).recent_3d_change >= 800
    THEN "strong"
    ELSE IF SumChange(items) >= 300 * Len(items) THEN "split"
    ELSE "ebbing"

\* 1.0 + day_strength / 100.0 + trend_3d / 200.0 in 0.0001, as the fraction
\* MomentumNum / MomentumDen.
MomentumNum(items) ==
    2 * Len(items) * NeutralMomentum + 2 * SumChange(items) + Sum3d(items)

MomentumDen(items) == 2 * Len(items)

\* Mutant: the momentum is not clamped.
ClampNum_Unclamped(num, den, lo, hi) == num

\* _clamp of the fraction num / den to [lo, hi]: the numerator of the result
ClampNum(num, den, lo, hi) == Max(lo * den, Min(hi * den, num))

\* round(): the integers nearest to n / d (d > 0).  On an exact tie the float
\* at hand decides, so both neighbours are possible.
Nearest(n, d) ==
    LET q == n \div d
        r2 == 2 * (n % d)
    IN  IF r2 < d THEN {q} ELSE IF r2 > d THEN {q + 1} ELSE {q, q + 1}

NoStats ==
    [present |-> FALSE, day_strength |-> 0, trend_3d |-> 0, momentum_factor |-> 0,
     leader_symbol |-> "", leader_status |-> ""]

\* The sector_stats entries lines 28-50 may store for a sector's records:
\* day_strength and trend_3d in 0.001 %, momentum_factor in 0.0001.
StatsChoices(items) ==
    IF items = <<>> THEN {NoStats}
    ELSE { [present |-> TRUE, day_strength |-> ds, trend_3d |-> t3, momentum_factor |-> mf,
            leader_symbol |-> Leader(items).symbol, leader_status |-> LeaderStatus(items)] :
           ds \in Nearest(10 * SumChange(items), Len(items)),
           t3 \in Nearest(10 * Sum3d(items), Len(items)),
           mf \in Nearest(ClampNum(MomentumNum(items), MomentumDen(items),
                                   MomentumLo, MomentumHi),
                          MomentumDen(items)) }

\* Lines 20-50.
BuildSectorStats ==
    /\ calib_pc = "stats"
    /\ \E stats \in [SectorNames -> UNION {StatsChoices(Bucket(all_candidates, s)) : s \in SectorNames}] :
          /\ \A s \in SectorNames : stats[s] \in StatsChoices(Bucket(all_candidates, s))
          /\ sector_stats' = stats
    /\ calib_pc' = "items"
    /\ UNCHANGED <<all_candidates, analysis_list, calibrated>>

\* One item of lines 53-70.
CalibratedItem(item, stats) ==
    LET sector == NormSector(item)
        s == stats[sector]
        mf == IF s.present THEN s.momentum_factor ELSE NeutralMomentum
        multiplier == ClampNum(mf, 1, MomentumLo, MomentumHi)
    IN  [symbol |-> item.symbol, sector |-> sector,
         sector_day_strength |-> IF s.present THEN s.day_strength ELSE 0,
         sector_trend_3d |-> IF s.present THEN s.trend_3d ELSE 0,
         sector_leader_symbol |-> s.leader_symbol,
         sector_leader_status |-> IF s.present THEN s.leader_status ELSE "split",
         sector_multiplier |-> multiplier,
         calibration_reason |-> IF multiplier > NeutralMomentum THEN "sector_strong"
                                ELSE IF multiplier < NeutralMomentum THEN "sector_weak"
                                ELSE "sector_neutral"]

\* Lines 52-75.
CalibrateItems ==
    /\ calib_pc = "items"
    /\ calibrated' = [k \in 1..Len(analysis_list) |-> CalibratedItem(analysis_list[k], sector_stats)]
    /\ calib_pc' = "done"
    /\ UNCHANGED <<all_candidates, analysis_list, sector_stats>>

CandidateSets ==
    {c \in UNION {[1..n -> CalibItems] : n \in 0..MaxCalib} :
        \A j, k \in 1..Len(c) : j # k => c[j] # c[k]}

\* analysis_list: the candidates themselves, or one record on its own.
CalibInit ==
    /\ all_candidates \in CandidateSets
    /\ analysis_list \in {all_candidates} \cup {<<x>> : x \in CalibItems}
    /\ calib_pc = "stats"
    /\ sector_stats = <<>>
    /\ calibrated = <<>>

CalibNext ==
    \/ BuildSectorStats /\ UNCHANGED <<poolVars, storyVars, fineVars, trackVars, screenVars, reviewVars, raceVars, dedupeVars, stageVars, statusVars, iterVars, tplVars>>
    \/ CalibrateItems /\ UNCHANGED <<poolVars, storyVars, fineVars, trackVars, screenVars, reviewVars, raceVars, dedupeVars, stageVars, statusVars, iterVars, tplVars>>

CalibStart == CalibInit /\ PoolIdle /\ StoryIdle /\ FineIdle /\ TrackIdle /\ ScreenIdle /\ ReviewIdle /\ RaceIdle /\ DedupeIdle /\ StageIdle /\ StatusIdle /\ IterIdle /\ TplIdle

SpecCalib == CalibStart /\ [][CalibNext]_vars

\* ------------------------------------------------------------------------
\* Claims about the sector calibrator
\* ------------------------------------------------------------------------

\* The records of all_candidates in a sector.
SectorItems(s) == Bucket(all_candidates, s)

\* v (in 0.0001) is exactly clamp(1 + day_strength/100 + trend_3d/200, 0.85, 1.15)
\* for the records items.
ExactMomentum(v, items) ==
    LET n == Len(items)
        num == 2 * n * 10000 + 2 * SumChange(items) + Sum3d(items)
    IN  IF num <= 8500 * 2 * n THEN v = 8500
        ELSE IF num >= 11500 * 2 * n THEN v = 11500
        ELSE v * 2 * n = num

\* v is that value rounded to 4 decimal places: nothing is nearer to it.
RoundedMomentum(v, items) ==
    LET n == Len(items)
        num == 2 * n * 10000 + 2 * SumChange(items) + Sum3d(items)
        diff == v * 2 * n - num
    IN  IF num <= 8500 * 2 * n THEN v = 8500
        ELSE IF num >= 11500 * 2 * n THEN v = 11500
        ELSE 2 * diff <= 2 * n /\ 2 * diff >= 0 - 2 * n

InRange(v) == 8500 <= v /\ v <= 11500

\* C7 as stated: every momentum_factor in sector_stats and every
\* sector_multiplier of a calibrated item lies in [0.85, 1.15] and equals
\* clamp(1 + day_strength/100 + trend_3d/200, 0.85, 1.15) of the item's
\* sector, 1.0 when the sector has no stats.
C7_Original ==
    /\ calib_pc \in {"items", "done"} =>
          \A s \in SectorNames :
              sector_stats[s].present =>
                 /\ InRange(sector_stats[s].momentum_factor)
                 /\ ExactMomentum(sector_stats[s].momentum_factor, SectorItems(s))
    /\ calib_pc = "done" =>
          \A k \in 1..Len(calibrated) :
              LET items == SectorItems(calibrated[k].sector)
              IN  /\ InRange(calibrated[k].sector_multiplier)
                  /\ IF items = <<>> THEN calibrated[k].sector_multiplier = 10000
                     ELSE ExactMomentum(calibrated[k].sector_multiplier, items)

\* C7 amended: every momentum_factor and every sector_multiplier lies in
\* [0.85, 1.15] and equals clamp(1 + day_strength/100 + trend_3d/200, 0.85,
\* 1.15) of the item's sector rounded to 4 decimal places (1.0 when the sector
\* has no stats); sector_stats has an entry exactly for the sectors that have
\* a record in all_candidates.
C7_MomentumRounded ==
    /\ calib_pc \in {"items", "done"} =>
          \A s \in SectorNames :
              /\ sector_stats[s].present <=> SectorItems(s) # <<>>
              /\ sector_stats[s].present =>
                    /\ InRange(sector_stats[s].momentum_factor)
                    /\ RoundedMomentum(sector_stats[s].momentum_factor, SectorItems(s))
    /\ calib_pc = "done" =>
          /\ Len(calibrated) = Len(analysis_list)
          /\ \A k \in 1..Len(calibrated) :
                LET items == SectorItems(calibrated[k].sector)
                IN  /\ calibrated[k].sector = NormSector(analysis_list[k])
                    /\ InRange(calibrated[k].sector_multiplier)
                    /\ IF items = <<>> THEN calibrated[k].sector_multiplier = 10000
                       ELSE RoundedMomentum(calibrated[k].sector_multiplier, items)

\* C7 witness: calibration is done for two items; one item's sector is
\* clamped at 1.15, the other's multiplier is a rounded value strictly inside
\* the range that differs from the unrounded one.
C7_Witness ==
    /\ calib_pc = "done"
    /\ Len(calibrated) = 2
    /\ \E j, k \in 1..2 :
          /\ calibrated[j].sector_multiplier = 11500
          /\ calibrated[k].sector_multiplier \in 8501..11499
          /\ ~ExactMomentum(calibrated[k].sector_multiplier, SectorItems(calibrated[k].sector))

\* The positions in all_candidates of the records of sector s.
SectorPositions(s) == {i \in 1..Len(all_candidates) : NormSector(all_candidates[i]) = s}

\* Position k holds the leader of sector s: the first record, in input order,
\* with the largest change_pct of the sector.
LeadsSector(k, s) ==
    /\ k \in SectorPositions(s)
    /\ \A j \in SectorPositions(s) :
          /\ all_candidates[j].change_pct <= all_candidates[k].change_pct
          /\ j < k => all_candidates[j].change_pct < all_candidates[k].change_pct

\* The sum of change_pct over the sector, in 0.01 %.
RECURSIVE SectorChangeSum(_)
SectorChangeSum(positions) ==
    IF positions = {} THEN 0
    ELSE LET i == CHOOSE i \in positions : TRUE
         IN  all_candidates[i].change_pct + SectorChangeSum(positions \ {i})

\* C14: for every sector the leader is the first record in input order
\* having the maximum change_pct of the sector; leader_status is strong
\* exactly when day_strength (the mean change_pct) >= 6 and the leader's
\* recent_3d_change >= 8, otherwise split exactly when day_strength >= 3,
\* otherwise ebbing.
C14_LeaderStatus ==
    calib_pc \in {"items", "done"} =>
        \A s \in SectorNames : \A k \in 1..Len(all_candidates) :
            LeadsSector(k, s) =>
                LET n == Cardinality(SectorPositions(s))
                    sum == SectorChangeSum(SectorPositions(s))
                    strong == sum >= 600 * n /\ all_candidates[k].recent_3d_change >= 800
                    status == sector_stats[s].leader_status
                IN  /\ sector_stats[s].present
                    /\ sector_stats[s].leader_symbol = all_candidates[k].symbol
                    /\ status = "strong" <=> strong
                    /\ status = "split" <=> ~strong /\ sum >= 300 * n
                    /\ status = "ebbing" <=> ~strong /\ sum < 300 * n

\* C14 witness: the scenario change_pct [10, 2], recent_3d_change [16, 4]:
\* day_strength 6.0, trend_3d 10.0, the 10 % symbol leads, status strong,
\* multiplier 1.11.
C14_Witness ==
    /\ calib_pc = "done"
    /\ Len(all_candidates) = 2
    /\ all_candidates[1].change_pct = 1000 /\ all_candidates[1].recent_3d_change = 1600
    /\ all_candidates[2].change_pct = 200 /\ all_candidates[2].recent_3d_change = 400
    /\ sector_stats["bank"].day_strength = 6000
    /\ sector_stats["bank"].trend_3d = 10000
    /\ sector_stats["bank"].leader_symbol = all_candidates[1].symbol
    /\ sector_stats["bank"].leader_status = "strong"
    /\ Len(calibrated) = 2
    /\ calibrated[1].sector_multiplier = 11100
    /\ calibrated[2].sector_multiplier = 11100

\* ------------------------------------------------------------------------
\* Coarse screener
\* ------------------------------------------------------------------------

MaxRecords == 2     \* records given to run_coarse_screen

\* The symbol prefixes of the main board, line 64.
MainBoardPrefixes == {"000", "001", "002", "003", "600", "601", "603", "605"}

\* hard_filters of DEFAULT_RULEBOOK; percentages are in 0.01 %.
DefaultHardFilters == [min_change_pct |-> 500, exclude_st |-> TRUE, main_board_only |-> TRUE]

\* rulebook=None
NoRulebook == [given |-> FALSE, hard_filters |-> DefaultHardFilters]

\* The rulebooks given: none, or one with any switches and a threshold of 5 % or 7 %.
Rulebooks ==
    {NoRulebook}
    \cup {[given |-> TRUE,
           hard_filters |-> [min_change_pct |-> mc, exclude_st |-> st, main_board_only |-> mb]] :
          mc \in {500, 700}, st \in BOOLEAN, mb \in BOOLEAN}

\* Records: a main-board or a ChiNext symbol, ST or not, 5 %, 5.01 % or 7 % up.
ScreenRecords ==
    {[symbol |-> [prefix |-> p, rest |-> "001"], is_st |-> st, change_pct |-> c] :
        p \in {"600", "300"}, st \in BOOLEAN, c \in {500, 501, 700}}

\* rulebook or DEFAULT_RULEBOOK
EffectiveHardFilters(rb) ==
    IF rb.given THEN rb.hard_filters ELSE DefaultHardFilters

\* Mutant: the threshold itself passes.
BelowThreshold_Inclusive(change_pct, min_change) == change_pct < min_change

\* Line 58.
BelowThreshold(change_pct, min_change) == change_pct <= min_change

\* top_n: none kept, fewer than the records given, and the default of line 96.
TopNChoices == {0, 1, 30}

\* Mutant: the checks stop at the first that fails.
HardFilterReasons_FirstOnly(item, hf) ==
    IF BelowThreshold(item.change_pct, hf.min_change_pct)
    THEN <<"change_pct_below_threshold">>
    ELSE IF hf.exclude_st /\ item.is_st THEN <<"st_excluded">>
    ELSE IF hf.main_board_only /\ item.symbol.prefix \notin MainBoardPrefixes
    THEN <<"not_main_board">>
    ELSE <<>>

\* hard_filter: the reasons, in the order of the checks.
HardFilterReasons(item, hf) ==
    (IF BelowThreshold(item.change_pct, hf.min_change_pct)
     THEN <<"change_pct_below_threshold">> ELSE <<>>)
    \o (IF hf.exclude_st /\ item.is_st THEN <<"st_excluded">> ELSE <<>>)
    \o (IF hf.main_board_only /\ item.symbol.prefix \notin MainBoardPrefixes
        THEN <<"not_main_board">> ELSE <<>>)

\* One pass of the loop of lines 102-123.  The tag list and the removal of
\* score keys add to and take from a kept record fields that no filter reads.
ScreenOne ==
    /\ screen_pc = "loop"
    /\ screen_i <= Len(records)
    /\ LET item == records[screen_i]
           drop_reasons == HardFilterReasons(item, EffectiveHardFilters(screen_rulebook))
       IN  IF drop_reasons # <<>>
           THEN /\ dropped' = Append(dropped, [item |-> item, drop_reasons |-> drop_reasons])
                /\ UNCHANGED kept
           ELSE /\ kept' = Append(kept, item)
                /\ UNCHANGED dropped
    /\ screen_i' = screen_i + 1
    /\ UNCHANGED <<records, top_n, screen_rulebook, screen_pc, coarse_result>>

\* Lines 125-127: `_ = top_n`, the lists are returned whole.
ScreenReturn ==
    /\ screen_pc = "loop"
    /\ screen_i > Len(records)
    /\ coarse_result' = [candidates |-> kept, dropped |-> dropped]
    /\ screen_pc' = "done"
    /\ UNCHANGED <<records, top_n, screen_rulebook, screen_i, kept, dropped>>

ScreenInit ==
    /\ records \in SeqsUpTo(ScreenRecords, MaxRecords)
    /\ top_n \in TopNChoices
    /\ screen_rulebook \in Rulebooks
    /\ screen_pc = "loop"
    /\ screen_i = 1
    /\ kept = <<>>
    /\ dropped = <<>>
    /\ coarse_result = [candidates |-> <<>>, dropped |-> <<>>]

ScreenNext ==
    \/ ScreenOne /\ UNCHANGED <<poolVars, storyVars, fineVars, trackVars, calibVars, reviewVars, raceVars, dedupeVars, stageVars, statusVars, iterVars, tplVars>>
    \/ ScreenReturn /\ UNCHANGED <<poolVars, storyVars, fineVars, trackVars, calibVars, reviewVars, raceVars, dedupeVars, stageVars, statusVars, iterVars, tplVars>>

ScreenStart == ScreenInit /\ PoolIdle /\ StoryIdle /\ FineIdle /\ TrackIdle /\ CalibIdle /\ ReviewIdle /\ RaceIdle /\ DedupeIdle /\ StageIdle /\ StatusIdle /\ IterIdle /\ TplIdle

SpecScreen == ScreenStart /\ [][ScreenNext]_vars

\* ------------------------------------------------------------------------
\* Claims about the coarse screener
\* ------------------------------------------------------------------------

\* The threshold in force.
MinChange == IF screen_rulebook.given THEN screen_rulebook.hard_filters.min_change_pct ELSE 500

\* The record passes the two hard filters other than the threshold.
PassesOtherFilters(r) ==
    LET hf == IF screen_rulebook.given THEN screen_rulebook.hard_filters
              ELSE [min_change_pct |-> 500, exclude_st |-> TRUE, main_board_only |-> TRUE]
    IN  /\ ~(hf.exclude_st /\ r.is_st)
        /\ ~(hf.main_board_only /\ r.symbol.prefix \notin MainBoardPrefixes)

\* C8: the change threshold is exclusive.  Of the records handled so far, one
\* whose change_pct equals min_change_pct is in dropped (and not in
\* candidates) with the reason change_pct_below_threshold, one whose
\* change_pct is above it and that passes the other hard filters is in
\* candidates; every record in candidates has change_pct > min_change_pct;
\* and the result returned holds these lists.
C8_ThresholdExclusive ==
    /\ \A k \in 1..(screen_i - 1) :
          LET r == records[k]
          IN  /\ r.change_pct = MinChange =>
                    /\ \E j \in 1..Len(dropped) :
                          /\ dropped[j].item = r
                          /\ "change_pct_below_threshold" \in Range(dropped[j].drop_reasons)
                    /\ r \notin Range(kept)
              /\ r.change_pct > MinChange /\ PassesOtherFilters(r) => r \in Range(kept)
    /\ \A j \in 1..Len(kept) : kept[j].change_pct > MinChange
    /\ screen_pc = "done" =>
          coarse_result.candidates = kept /\ coarse_result.dropped = dropped

\* C8 witness: the screen is done; a record exactly at the threshold was
\* dropped for that reason alone, one just above it was kept.
C8_Witness ==
    /\ screen_pc = "done"
    /\ \E j \in 1..Len(coarse_result.dropped), k \in 1..Len(coarse_result.candidates) :
          /\ coarse_result.dropped[j].item.change_pct = MinChange
          /\ coarse_result.dropped[j].drop_reasons = <<"change_pct_below_threshold">>
          /\ coarse_result.candidates[k].change_pct = MinChange + 1

\* The names of the hard filters the record fails under the rulebook in
\* force, in the order change_pct_below_threshold, st_excluded, not_main_board.
FailedFilters(r) ==
    LET hf == IF screen_rulebook.given THEN screen_rulebook.hard_filters
              ELSE [min_change_pct |-> 500, exclude_st |-> TRUE, main_board_only |-> TRUE]
        failed ==
            (IF r.change_pct <= MinChange THEN {"change_pct_below_threshold"} ELSE {})
            \cup (IF hf.exclude_st /\ r.is_st THEN {"st_excluded"} ELSE {})
            \cup (IF hf.main_board_only /\ r.symbol.prefix \notin MainBoardPrefixes
                  THEN {"not_main_board"} ELSE {})
    IN  SelectSeq(<<"change_pct_below_threshold", "st_excluded", "not_main_board">>,
                  LAMBDA n : n \in failed)

\* C13: run_coarse_screen partitions its input.  For every top_n, the
\* candidates are the input records that fail no hard filter, in input order,
\* the dropped list holds the other input records, in input order, so that
\* every input record is in exactly one of the two and nothing is ranked or
\* truncated; each dropped record's drop_reasons names all the hard filters
\* it fails, in the fixed order.
C13_Partition ==
    screen_pc = "done" =>
        LET fails == SelectSeq(records, LAMBDA r : FailedFilters(r) # <<>>)
        IN  /\ coarse_result.candidates = SelectSeq(records, LAMBDA r : FailedFilters(r) = <<>>)
            /\ Len(coarse_result.dropped) = Len(fails)
            /\ \A j \in 1..Len(fails) :
                  /\ coarse_result.dropped[j].item = fails[j]
                  /\ coarse_result.dropped[j].drop_reasons = FailedFilters(fails[j])
            /\ Len(coarse_result.candidates) + Len(coarse_result.dropped) = Len(records)

\* C13 witness: with top_n = 0 a record is still among the candidates, and
\* the other record given was dropped for all three reasons.
C13_Witness ==
    /\ screen_pc = "done"
    /\ top_n = 0
    /\ Len(records) = 2
    /\ Len(coarse_result.candidates) = 1
    /\ Len(coarse_result.dropped) = 1
    /\ coarse_result.dropped[1].drop_reasons =
          <<"change_pct_below_threshold", "st_excluded", "not_main_board">>

\* ------------------------------------------------------------------------
\* Review engine
\* ------------------------------------------------------------------------

MaxBatch == 3       \* metrics in one batch

MaxMinValid == 2    \* the largest min_valid_t3_samples configured

\* -6.0 %, lines 77 and 85, in 0.001 %
MddTrigger == -6000

\* 0.45, line 110, in 0.001
WinRateTrigger == 450

\* "强化兑现识别", line 133
TitleCash == <<"cash_out_detection">>

\* "启用追踪剔除机制", line 145
TitleRemoval == <<"enable", "tracking_removal">>

\* "样本不足暂缓激进调参", line 161
TitleWaitRule == <<"too_few_samples", "hold_tuning">>

\* "补充样本期判定提示", line 171
TitleWaitPrompt == <<"sample_period_hint">>

\* "维持当前硬规则", line 183
TitleKeepRules == <<"keep", "hard_rules">>

\* "维持当前Prompt结构", line 193
TitleKeepPrompt == <<"keep", "prompt_structure">>

\* Tracking metrics as the tracker writes them, percentages in 0.001 %.  All
\* values are multiples of 0.1 %, so no mean of up to five of them falls
\* exactly between two thousandths and round(x, 3) has one outcome.
ReviewMetrics ==
    { [symbol |-> "a", t1_return_pct |-> Some(1000), t2_return_pct |-> Some(1500),
       t3_return_pct |-> Some(2000), mdd_3d_pct |-> Some(-7000), should_remove |-> FALSE],
      [symbol |-> "b", t1_return_pct |-> Some(-1000), t2_return_pct |-> Some(-2000),
       t3_return_pct |-> Some(-1000), mdd_3d_pct |-> Some(-5000), should_remove |-> TRUE],
      [symbol |-> "c", t1_return_pct |-> Null, t2_return_pct |-> Null,
       t3_return_pct |-> Null, mdd_3d_pct |-> Null, should_remove |-> FALSE],
      [symbol |-> "f", t1_return_pct |-> Some(-7000), t2_return_pct |-> Null,
       t3_return_pct |-> Null, mdd_3d_pct |-> Some(-7000), should_remove |-> FALSE],
      [symbol |-> "", t1_return_pct |-> Some(500), t2_return_pct |-> Null,
       t3_return_pct |-> Some(0), mdd_3d_pct |-> Some(-6000), should_remove |-> TRUE],
      [symbol |-> "d", t1_return_pct |-> Some(2000), t2_return_pct |-> Some(2500),
       t3_return_pct |-> Some(3000), mdd_3d_pct |-> Some(-1000), should_remove |-> FALSE],
      [symbol |-> "e", t1_return_pct |-> Some(-500), t2_return_pct |-> Some(200),
       t3_return_pct |-> Some(1000), mdd_3d_pct |-> Some(-2000), should_remove |-> TRUE] }

\* int(iter_cfg.get("min_valid_t3_samples", 5)): any integer the configuration holds
MinValidChoices == 0..MaxMinValid

\* _nonnull
RECURSIVE Nonnull(_)
Nonnull(values) ==
    IF values = <<>> THEN <<>>
    ELSE (IF Head(values).null THEN <<>> ELSE <<Head(values).v>>) \o Nonnull(Tail(values))

RECURSIVE SumOf(_)
SumOf(vals) == IF vals = <<>> THEN 0 ELSE Head(vals) + SumOf(Tail(vals))

\* round(mean(vals), 3) if vals else None
RoundMean(vals) ==
    IF vals = <<>> THEN Null ELSE Some(RoundDiv(SumOf(vals), Len(vals)))

\* lines 62-65 and 40: the known values of one key
T1(batch) == Nonnull([i \in 1..Len(batch) |-> batch[i].t1_return_pct])

T2(batch) == Nonnull([i \in 1..Len(batch) |-> batch[i].t2_return_pct])

T3(batch) == Nonnull([i \in 1..Len(batch) |-> batch[i].t3_return_pct])

Mdd(batch) == Nonnull([i \in 1..Len(batch) |-> batch[i].mdd_3d_pct])

NoImpact ==
    [present |-> FALSE, before_count |-> 0, after_count |-> 0,
     before_avg_t1 |-> Null, after_avg_t1 |-> Null,
     before_avg_mdd |-> Null, after_avg_mdd |-> Null]

\* _estimate_filter_impact
EstimateFilterImpact(batch, symbol_set) ==
    LET before == batch
        after == SelectSeq(batch, LAMBDA x : x.symbol \notin symbol_set)
    IN  [present |-> TRUE,
         before_count |-> Len(before),
         after_count |-> Len(after),
         before_avg_t1 |-> RoundMean(T1(before)),
         after_avg_t1 |-> RoundMean(T1(after)),
         before_avg_mdd |-> RoundMean(Mdd(before)),
         after_avg_mdd |-> RoundMean(Mdd(after))]

\* _build_proposal.  The suggestion text is fixed by the title; of the evidence
\* the model keeps estimated_impact, its other numbers repeat the summary.  A
\* trigger sample is the symbol and the number the source copies from a metric.
BuildProposal(proposal_type, title, confidence, impact, trigger_samples) ==
    [type |-> proposal_type, title |-> title, estimated_impact |-> impact,
     trigger_samples |-> trigger_samples,
     confidence |-> confidence,       \* round(confidence, 3), in 0.001
     status |-> "proposed"]

\* line 67
WinsT3(batch) == SelectSeq(T3(batch), LAMBDA v : v > 0)

\* line 68
RemoveCnt(batch) == Len(SelectSeq(batch, LAMBDA x : x.should_remove))

\* line 71
HasValidT3(batch, min_valid) == Len(T3(batch)) >= min_valid

\* line 72 divides by len(t3): ZeroDivisionError when has_valid_t3 holds of no sample
DividesByZero(batch, min_valid) == HasValidT3(batch, min_valid) /\ Len(T3(batch)) = 0

\* line 77: avg_mdd is 0.0 when no mdd is known
DrawdownFires(batch) ==
    Mdd(batch) # <<>> /\ SumOf(Mdd(batch)) <= MddTrigger * Len(Mdd(batch))

\* line 110
WinRateFires(batch, min_valid) ==
    /\ HasValidT3(batch, min_valid)
    /\ 1000 * Len(WinsT3(batch)) < WinRateTrigger * Len(T3(batch))

\* line 141: int(sample_size * 0.35) rounds down
RemovalFires(batch) == RemoveCnt(batch) > Max(2, (Len(batch) * 35) \div 100)

\* line 157
InsufficientFires(batch, min_valid) == ~HasValidT3(batch, min_valid)

\* The trigger samples of lines 78-86
MddSamples(batch) ==
    LET hit == SelectSeq(batch, LAMBDA x : ~x.mdd_3d_pct.null /\ x.mdd_3d_pct.v <= MddTrigger)
    IN  [i \in 1..Len(hit) |-> [symbol |-> hit[i].symbol, value |-> hit[i].mdd_3d_pct]]

\* The trigger samples of lines 111-119
T3Samples(batch) ==
    LET hit == SelectSeq(batch, LAMBDA x : ~x.t3_return_pct.null /\ x.t3_return_pct.v <= 0)
    IN  [i \in 1..Len(hit) |-> [symbol |-> hit[i].symbol, value |-> hit[i].t3_return_pct]]

\* The trigger samples of lines 149-153; the metrics here carry no remove_reason
RemoveSamples(batch) ==
    LET hit == SelectSeq(batch, LAMBDA x : x.should_remove)
    IN  [i \in 1..Len(hit) |-> [symbol |-> hit[i].symbol, value |-> Null]]

\* lines 179-198: the placeholder stands in for an empty list
WithPlaceholder_Never(suggestions, placeholder) == suggestions

WithPlaceholder(suggestions, placeholder) ==
    IF suggestions = <<>> THEN <<placeholder>> ELSE suggestions

\* the result of lines 55-60
EmptyResult ==
    [summary |-> [full |-> FALSE, sample_size |-> 0,
                  avg_t1_return_pct |-> Null, avg_t2_return_pct |-> Null,
                  avg_t3_return_pct |-> Null, avg_mdd_3d_pct |-> Null,
                  win_rate_t3 |-> Null, valid_t3_samples |-> 0,
                  required_t3_samples |-> 0, remove_count |-> 0],
     rule_patch_suggestions |-> <<>>,
     prompt_patch_suggestions |-> <<>>]

\* lines 62-216, for a batch that is not empty and does not divide by zero
PatchSuggestions(batch, min_valid) ==
    LET t3 == T3(batch)
        win_rate_t3 ==
            IF HasValidT3(batch, min_valid)
            THEN Some(RoundDiv(1000 * Len(WinsT3(batch)), Len(t3)))
            ELSE Null
        mdd_trigger == MddSamples(batch)
        symbols == {mdd_trigger[i].symbol : i \in 1..Len(mdd_trigger)} \ {""}
        impact == EstimateFilterImpact(batch, symbols)
        t3_trigger == T3Samples(batch)
        remove_trigger == RemoveSamples(batch)
        wait_trigger == <<[symbol |-> "", value |-> Some(Len(t3))]>>
        rule1 == IF DrawdownFires(batch)
                 THEN <<BuildProposal("rule", TitleMdd, 720, impact, mdd_trigger)>> ELSE <<>>
        prompt1 == IF DrawdownFires(batch)
                   THEN <<BuildProposal("prompt", TitleRisk, 680, impact, mdd_trigger)>> ELSE <<>>
        rule2 == IF WinRateFires(batch, min_valid)
                 THEN <<BuildProposal("rule", TitleStyle, 700, NoImpact, t3_trigger)>> ELSE <<>>
        prompt2 == IF WinRateFires(batch, min_valid)
                   THEN <<BuildProposal("prompt", TitleCash, 660, NoImpact, t3_trigger)>> ELSE <<>>
        rule3 == IF RemovalFires(batch)
                 THEN <<BuildProposal("rule", TitleRemoval, 750, NoImpact, remove_trigger)>>
                 ELSE <<>>
        rule4 == IF InsufficientFires(batch, min_valid)
                 THEN <<BuildProposal("rule", TitleWaitRule, 800, NoImpact, wait_trigger)>>
                 ELSE <<>>
        prompt4 == IF InsufficientFires(batch, min_valid)
                   THEN <<BuildProposal("prompt", TitleWaitPrompt, 780, NoImpact, wait_trigger)>>
                   ELSE <<>>
    IN  [summary |->
            [full |-> TRUE, sample_size |-> Len(batch),
             avg_t1_return_pct |-> RoundMean(T1(batch)),
             avg_t2_return_pct |-> RoundMean(T2(batch)),
             avg_t3_return_pct |-> RoundMean(t3),
             avg_mdd_3d_pct |-> RoundMean(Mdd(batch)),
             win_rate_t3 |-> win_rate_t3,
             valid_t3_samples |-> Len(t3),
             required_t3_samples |-> min_valid,
             remove_count |-> RemoveCnt(batch)],
         rule_patch_suggestions |->
            WithPlaceholder(rule1 \o rule2 \o rule3 \o rule4,
                            BuildProposal("rule", TitleKeepRules, 580, NoImpact, <<>>)),
         prompt_patch_suggestions |->
            WithPlaceholder(prompt1 \o prompt2 \o prompt4,
                            BuildProposal("prompt", TitleKeepPrompt, 570, NoImpact, <<>>))]

\* generate_patch_suggestions
GeneratePatchSuggestions ==
    /\ review_pc = "called"
    /\ IF tracking_metrics = <<>>
       THEN review_pc' = "returned" /\ review_out' = EmptyResult
       ELSE IF DividesByZero(tracking_metrics, min_valid_t3_samples)
       THEN review_pc' = "raised" /\ review_out' = review_out
       ELSE /\ review_pc' = "returned"
            /\ review_out' = PatchSuggestions(tracking_metrics, min_valid_t3_samples)
    /\ UNCHANGED <<tracking_metrics, min_valid_t3_samples>>

ReviewInit ==
    /\ tracking_metrics \in SeqsUpTo(ReviewMetrics, MaxBatch)
    /\ min_valid_t3_samples \in MinValidChoices
    /\ review_pc = "called"
    /\ review_out = <<>>

ReviewNext ==
    \/ GeneratePatchSuggestions
         /\ UNCHANGED <<poolVars, storyVars, fineVars, trackVars, calibVars, screenVars, raceVars, dedupeVars, stageVars, statusVars, iterVars, tplVars>>

ReviewStart ==
    ReviewInit /\ PoolIdle /\ StoryIdle /\ FineIdle /\ TrackIdle /\ CalibIdle /\ ScreenIdle
    /\ RaceIdle /\ DedupeIdle /\ StageIdle /\ StatusIdle /\ IterIdle /\ TplIdle

SpecReview == ReviewStart /\ [][ReviewNext]_vars

\* ------------------------------------------------------------------------
\* Claims about the review engine
\* ------------------------------------------------------------------------

Titles(suggestions) == {suggestions[i].title : i \in 1..Len(suggestions)}

\* A rule heuristic of lines 77-177 fired for the batch.
RuleHeuristicFired ==
    \/ DrawdownFires(tracking_metrics)
    \/ WinRateFires(tracking_metrics, min_valid_t3_samples)
    \/ RemovalFires(tracking_metrics)
    \/ InsufficientFires(tracking_metrics, min_valid_t3_samples)

\* A prompt heuristic of lines 77-177 fired for the batch.
PromptHeuristicFired ==
    \/ DrawdownFires(tracking_metrics)
    \/ WinRateFires(tracking_metrics, min_valid_t3_samples)
    \/ InsufficientFires(tracking_metrics, min_valid_t3_samples)

\* Neither list is empty, and each holds its placeholder exactly when no
\* heuristic of its type fired.
NeverEmpty ==
    /\ review_out.rule_patch_suggestions # <<>>
    /\ review_out.prompt_patch_suggestions # <<>>
    /\ TitleKeepRules \in Titles(review_out.rule_patch_suggestions) <=> ~RuleHeuristicFired
    /\ TitleKeepPrompt \in Titles(review_out.prompt_patch_suggestions) <=> ~PromptHeuristicFired
    /\ \A i \in 1..Len(review_out.rule_patch_suggestions) :
          review_out.rule_patch_suggestions[i].type = "rule"
    /\ \A i \in 1..Len(review_out.prompt_patch_suggestions) :
          review_out.prompt_patch_suggestions[i].type = "prompt"

RuleEmitted(title) ==
    review_pc = "returned" /\ title \in Titles(review_out.rule_patch_suggestions)

PromptEmitted(title) ==
    review_pc = "returned" /\ title \in Titles(review_out.prompt_patch_suggestions)

\* The call produced a win_rate_t3 that is a number.
WinRateDefined ==
    /\ review_pc = "returned"
    /\ review_out.summary.full
    /\ ~review_out.summary.win_rate_t3.null

\* The share of the non-null T+3 returns that are positive is below 0.45.
WinRateBelowTrigger ==
    LET known == { i \in 1..Len(tracking_metrics) : ~tracking_metrics[i].t3_return_pct.null }
        wins == { i \in known : tracking_metrics[i].t3_return_pct.v > 0 }
    IN  1000 * Cardinality(wins) < WinRateTrigger * Cardinality(known)

EnoughT3Samples ==
    Cardinality({ i \in 1..Len(tracking_metrics) : ~tracking_metrics[i].t3_return_pct.null })
        >= min_valid_t3_samples

\* The pairs of the win-rate and the insufficient-sample heuristics are
\* complete pairs, emitted as the claim says.
WinRatePairs ==
    /\ WinRateDefined <=> EnoughT3Samples
    /\ RuleEmitted(TitleStyle) <=> (WinRateDefined /\ WinRateBelowTrigger)
    /\ PromptEmitted(TitleCash) <=> RuleEmitted(TitleStyle)
    /\ RuleEmitted(TitleWaitRule) <=> ~WinRateDefined
    /\ PromptEmitted(TitleWaitPrompt) <=> RuleEmitted(TitleWaitRule)
    /\ ~(RuleEmitted(TitleStyle) /\ RuleEmitted(TitleWaitRule))

\* The drawdown and the removal proposals depend on their own trigger only.
OtherTriggersIndependent ==
    /\ RuleEmitted(TitleMdd) <=> DrawdownFires(tracking_metrics)
    /\ PromptEmitted(TitleRisk) <=> DrawdownFires(tracking_metrics)
    /\ RuleEmitted(TitleRemoval) <=> RemovalFires(tracking_metrics)

\* C17: in generate_patch_suggestions, for every batch and every configured
\* min_valid_t3_samples, win_rate_t3 is defined exactly when the number of
\* non-null T+3 samples is at least the minimum; the win-rate pair is emitted
\* exactly when it is defined and below 0.45; the insufficient-sample pair is
\* emitted exactly when it is undefined; the two pairs are never emitted
\* together, and the drawdown and removal triggers fire independently of both.
C17_WinRateAndSamplePairs ==
    review_pc # "called" => WinRatePairs /\ OtherTriggersIndependent

\* The same where the call returns a result for a batch that is not empty:
\* this much holds of lines 62-177.
WinRatePairsWhenReturned ==
    review_pc = "returned" /\ tracking_metrics # <<>> =>
        WinRatePairs /\ OtherTriggersIndependent

\* ---- C18 ----
\* The mean of the non-null mdd_3d_pct values exists and is at most -6.
MeanMddAtMostTrigger ==
    LET known == { i \in 1..Len(tracking_metrics) : ~tracking_metrics[i].mdd_3d_pct.null }
        total == SumOf([i \in 1..Len(tracking_metrics) |->
                          IF i \in known THEN tracking_metrics[i].mdd_3d_pct.v ELSE 0])
    IN  known # {} /\ total <= MddTrigger * Cardinality(known)

\* The symbols that name a metric with mdd_3d_pct <= -6.
DrawdownSymbols ==
    { tracking_metrics[i].symbol : i \in
        { j \in 1..Len(tracking_metrics) :
            /\ tracking_metrics[j].symbol # ""
            /\ ~tracking_metrics[j].mdd_3d_pct.null
            /\ tracking_metrics[j].mdd_3d_pct.v <= MddTrigger } }

\* before_* over all metrics, after_* over the metrics of every other symbol
ExpectedImpact ==
    LET rest == SelectSeq(tracking_metrics, LAMBDA x : x.symbol \notin DrawdownSymbols)
    IN  [present |-> TRUE,
         before_count |-> Len(tracking_metrics),
         after_count |-> Len(rest),
         before_avg_t1 |-> RoundMean(T1(tracking_metrics)),
         after_avg_t1 |-> RoundMean(T1(rest)),
         before_avg_mdd |-> RoundMean(Mdd(tracking_metrics)),
         after_avg_mdd |-> RoundMean(Mdd(rest))]

\* Every proposal of that title in the list carries the expected impact.
CarriesImpact(suggestions, title) ==
    \A i \in 1..Len(suggestions) :
        suggestions[i].title = title => suggestions[i].estimated_impact = ExpectedImpact

DrawdownPair ==
    /\ RuleEmitted(TitleMdd) <=> MeanMddAtMostTrigger
    /\ PromptEmitted(TitleRisk) <=> MeanMddAtMostTrigger
    /\ review_pc = "returned" =>
          /\ CarriesImpact(review_out.rule_patch_suggestions, TitleMdd)
          /\ CarriesImpact(review_out.prompt_patch_suggestions, TitleRisk)

\* C18: in generate_patch_suggestions, whenever the mean of the non-null
\* mdd_3d_pct values is at most -6, and only then, both the rule proposal
\* "strengthen drawdown filter" and the prompt proposal "tighten risk items"
\* are emitted, each with an estimated_impact whose before_* values are taken
\* over all metrics and whose after_* values are recomputed without exactly
\* the symbols with mdd_3d_pct <= -6; a batch with no non-null mdd never
\* triggers it.
C18_DrawdownPairWithImpact ==
    review_pc # "called" => DrawdownPair

\* The same where the call returns a result: this much holds of lines 77-108.
DrawdownPairWhenReturned ==
    review_pc = "returned" => DrawdownPair

\* ------------------------------------------------------------------------
\* Two invocations on one pool
\*
\* Each function of patch_pool.py loads the pool file, works on its own copy
\* and saves the copy; nothing locks the file in between.  Two invocations run
\* here, every file read and every file write a step of its own.
\* ------------------------------------------------------------------------

Procs == {"p1", "p2"}

\* A proposal as append_proposals stored it earlier.
StoredItem(p, status) ==
    [NewItem(p, p.type, 0, 1, "d0") EXCEPT !.status = status]

\* The pool file before the two invocations: absent or empty, or one proposal.
RacePools ==
    {<<>>}
    \cup {<<StoredItem(s, "accepted")>> : s \in Suggestions}
    \cup {<<StoredItem(s, "proposed")>> : s \in RuleSuggestions}

NoCall ==
    [op |-> "", pc |-> "load", rules |-> <<>>, prompts |-> <<>>, ids |-> {}, status |-> "",
     ts |-> 0, saw |-> {}, local_pool |-> <<>>, local_rulebook |-> EmptyRulebook,
     local_prompt |-> <<>>]

\* The invocations made on a pool file holding `proposals`.
RaceCalls(proposals) ==
    {[NoCall EXCEPT !.op = "append", !.rules = <<s>>] : s \in RuleSuggestions}
    \cup {[NoCall EXCEPT !.op = "append", !.prompts = <<s>>] : s \in PromptSuggestions}
    \cup {[NoCall EXCEPT !.op = "set_status",
                         !.ids = {proposals[i].id : i \in 1..Len(proposals)},
                         !.status = st] : st \in {"accepted", "rejected"}}
    \cup {[NoCall EXCEPT !.op = "apply"]}

\* The loop of apply_accepted_proposals over the loaded proposals.
ApplyLocal(c, now) ==
    ApplyLoop([rulebook |-> c.local_rulebook, prompt |-> c.local_prompt,
               proposals |-> c.local_pool,
               applied_rule_ids |-> <<>>, applied_prompt_ids |-> <<>>,
               counts |-> [i \in 1..Len(c.local_pool) |-> 0]], 1, now)

\* What invocation c makes of the proposals it loaded, at clock reading now.
Effect(c, proposals, now) ==
    IF c.op = "append"
    THEN AppendedPool(proposals, AddedItems(c.rules, c.prompts, now, "d1"))
    ELSE IF c.op = "set_status"
    THEN StatusUpdated(proposals, c.ids, c.status)
    ELSE ApplyLocal([c EXCEPT !.local_pool = proposals], now).proposals

\* Mutant: the save works on the pool file as it is at the time of the save.
SavedPool_Reloaded(c, stored) == Effect(c, stored, c.ts)

\* pool["proposals"] = proposals; save_patch_pool(pool_path, pool)
SavedPool(c, stored) == c.local_pool

\* load_patch_pool, lines 33, 64 and 83; the loops of append_proposals and
\* set_proposal_status touch no file and run in the same step.
Load(p) ==
    LET c == race_calls[p]
        loaded == [c EXCEPT !.saw = Range(saved), !.ts = clock]
    IN  /\ c.pc = "load"
        /\ race_calls' = [race_calls EXCEPT ![p] =
              IF c.op = "apply"
              THEN [loaded EXCEPT !.local_pool = pool, !.pc = "read_rulebook"]
              ELSE [loaded EXCEPT !.local_pool = Effect(c, pool, clock), !.pc = "save"]]
        /\ UNCHANGED <<poolVars, saved, pool0>>

\* lines 91-99
ReadRulebook(p) ==
    /\ race_calls[p].pc = "read_rulebook"
    /\ race_calls' = [race_calls EXCEPT ![p] = [@ EXCEPT !.local_rulebook = rulebook,
                                               !.pc = "read_prompt"]]
    /\ UNCHANGED <<poolVars, saved, pool0>>

\* lines 101-129: the prompt file is read and the loop runs
ReadPrompt(p) ==
    LET c == [race_calls[p] EXCEPT !.local_prompt = WithHeader(prompt)]
        st == ApplyLocal(c, clock)
    IN  /\ race_calls[p].pc = "read_prompt"
        /\ race_calls' = [race_calls EXCEPT ![p] =
              [c EXCEPT !.local_rulebook = st.rulebook, !.local_prompt = st.prompt,
                        !.local_pool = st.proposals, !.ts = clock,
                        !.pc = "write_rulebook"]]
        /\ UNCHANGED <<poolVars, saved, pool0>>

\* line 132
WriteRulebook(p) ==
    /\ race_calls[p].pc = "write_rulebook"
    /\ rulebook' = race_calls[p].local_rulebook
    /\ race_calls' = [race_calls EXCEPT ![p] = [@ EXCEPT !.pc = "write_prompt"]]
    /\ UNCHANGED <<pool, prompt, clock, ret, applyCount, saved, pool0>>

\* line 134
WritePrompt(p) ==
    /\ race_calls[p].pc = "write_prompt"
    /\ prompt' = race_calls[p].local_prompt
    /\ race_calls' = [race_calls EXCEPT ![p] = [@ EXCEPT !.pc = "save"]]
    /\ UNCHANGED <<pool, rulebook, clock, ret, applyCount, saved, pool0>>

\* save_patch_pool, lines 56, 73 and 137
Save(p) ==
    /\ race_calls[p].pc = "save"
    /\ pool' = SavedPool(race_calls[p], pool)
    /\ saved' = Append(saved, p)
    /\ race_calls' = [race_calls EXCEPT ![p] = [@ EXCEPT !.pc = "done"]]
    /\ UNCHANGED <<rulebook, prompt, clock, ret, applyCount, pool0>>

RaceTick ==
    /\ clock + 1 \in Seconds
    /\ clock' = clock + 1
    /\ UNCHANGED <<pool, rulebook, prompt, ret, applyCount, raceVars>>

RaceInit ==
    /\ pool \in RacePools
    /\ pool0 = pool
    /\ \E f \in InitFiles : rulebook = f.rulebook /\ prompt = f.prompt
    /\ clock = 0
    /\ ret = NoRet
    /\ applyCount = <<>>
    /\ race_calls \in [Procs -> RaceCalls(pool)]
    /\ saved = <<>>

RaceNext ==
    \/ \E p \in Procs : Load(p)
         /\ UNCHANGED <<storyVars, fineVars, trackVars, calibVars, screenVars, reviewVars, dedupeVars, stageVars, statusVars, iterVars, tplVars>>
    \/ \E p \in Procs : ReadRulebook(p)
         /\ UNCHANGED <<storyVars, fineVars, trackVars, calibVars, screenVars, reviewVars, dedupeVars, stageVars, statusVars, iterVars, tplVars>>
    \/ \E p \in Procs : ReadPrompt(p)
         /\ UNCHANGED <<storyVars, fineVars, trackVars, calibVars, screenVars, reviewVars, dedupeVars, stageVars, statusVars, iterVars, tplVars>>
    \/ \E p \in Procs : WriteRulebook(p)
         /\ UNCHANGED <<storyVars, fineVars, trackVars, calibVars, screenVars, reviewVars, dedupeVars, stageVars, statusVars, iterVars, tplVars>>
    \/ \E p \in Procs : WritePrompt(p)
         /\ UNCHANGED <<storyVars, fineVars, trackVars, calibVars, screenVars, reviewVars, dedupeVars, stageVars, statusVars, iterVars, tplVars>>
    \/ \E p \in Procs : Save(p)
         /\ UNCHANGED <<storyVars, fineVars, trackVars, calibVars, screenVars, reviewVars, dedupeVars, stageVars, statusVars, iterVars, tplVars>>
    \/ RaceTick
         /\ UNCHANGED <<storyVars, fineVars, trackVars, calibVars, screenVars, reviewVars, dedupeVars, stageVars, statusVars, iterVars, tplVars>>

RaceStart ==
    RaceInit /\ StoryIdle /\ FineIdle /\ TrackIdle /\ CalibIdle /\ ScreenIdle /\ ReviewIdle
    /\ DedupeIdle /\ StageIdle /\ StatusIdle /\ IterIdle /\ TplIdle

SpecRace == RaceStart /\ [][RaceNext]_vars

\* ------------------------------------------------------------------------
\* Claims about overlapping invocations
\* ------------------------------------------------------------------------

\* Both invocations are complete, p saved first, and q had loaded the pool
\* before p saved it.
Overlapped(p, q) ==
    /\ p # q
    /\ saved = <<p, q>>
    /\ p \notin race_calls[q].saw

\* C12: the read-modify-write of the pool has no locking, so a lost update is
\* reachable.  Whenever two invocations overlap so that the second to save had
\* loaded the pool before the first saved, the final pool is what the second
\* alone makes of the original pool: whatever the first appended or changed
\* is missing.
C12_LostUpdate ==
    \A p \in Procs, q \in Procs :
        Overlapped(p, q) => pool = Effect(race_calls[q], pool0, race_calls[q].ts)

\* C12 witness: an append and a set_proposal_status overlapped; both are
\* complete, the append saved first, and the proposal it appended (and
\* returned) is not in the pool.
C12_Witness ==
    \E p \in Procs, q \in Procs :
        /\ Overlapped(p, q)
        /\ race_calls[p].op = "append"
        /\ race_calls[q].op = "set_status"
        /\ Len(race_calls[p].local_pool) = Len(pool0) + 1
        /\ Len(pool) = Len(pool0)
        /\ \A i \in 1..Len(pool) : pool[i].id # race_calls[p].local_pool[Len(pool0) + 1].id

\* The effects in the two files: each proposal id has at most one entry of
\* applied_rule_notes and at most one note line of the prompt, and the style
\* weight was lowered at most once for each style-weight rule of the pool.
EffectsOnce ==
    LET notes == rulebook.applied_rule_notes
        styleRules == {i \in 1..Len(pool0) :
                          /\ pool0[i].type = "rule"
                          /\ IsInfix(KwStyleWeight, pool0[i].title)}
    IN  /\ \A j, k \in 1..Len(notes) : notes[j].id = notes[k].id => j = k
        /\ \A j, k \in 1..Len(prompt) :
              prompt[j].k = "note" /\ prompt[k].k = "note" /\ prompt[j].id = prompt[k].id
                 => j = k
        /\ rulebook.weights.has_style_score =>
              rulebook.weights.style_score >= 100 - 20 * Cardinality(styleRules)

\* No invocation loaded the pool between another's load and save.
Serial ==
    \A p \in Procs, q \in Procs :
        p # q /\ race_calls[p].pc # "load" /\ race_calls[q].pc # "load" =>
            p \in race_calls[q].saw \/ q \in race_calls[p].saw

\* What does hold: invocations that do not overlap commit every effect once.
SerialEffectsOnce == Serial => EffectsOnce

\* C29 as stated: the effect of an accepted proposal (the lowered style
\* weight, the applied_rule_notes entry, the prompt's note line) is committed
\* to the rulebook and the prompt at most once in total, also when two
\* apply_accepted_proposals invocations overlap so that both load the pool
\* before either saves it.
C29_CommittedOnce ==
    (\A p \in Procs : race_calls[p].op = "apply") => EffectsOnce

\* ======================================================================
\* Proposal lists of the iteration pipeline
\* (src/pipelines/iteration_pipeline.py, _dedupe_and_limit_proposals)
\* ======================================================================

MaxDedupe == 3     \* longest proposal list handed to the function
MaxItems == 2      \* largest max_items (the configured max_*_proposals)

\* Proposals as the review engine and the AI review produce them: a type,
\* a title and a suggestion (token sequences, "ws" is white space), a
\* confidence in thousandths and the producer, which tells two occurrences
\* of one triple apart.
DedupeProposal(type, title, suggestion, confidence, source) ==
    [type |-> type, title |-> title, suggestion |-> suggestion,
     confidence |-> confidence, source |-> source]

DedupeProposals ==
    { DedupeProposal("rule", <<"drawdown">>, <<"tighten">>, 700, "review_engine"),
      DedupeProposal("rule", <<"drawdown", "ws">>, <<"ws", "tighten">>, 800, "ai_review"),
      DedupeProposal("rule", <<"drawdown">>, <<"tighten">>, 700, "ai_review"),
      DedupeProposal("rule", <<"winrate">>, <<"tighten">>, 600, "review_engine"),
      DedupeProposal("prompt", <<"drawdown">>, <<"tighten">>, 700, "ai_review") }

\* key = (str(type), str(title).strip(), str(suggestion).strip())
DedupeKey(p) == <<p.type, Strip(p.title), Strip(p.suggestion)>>

\* One insertion of sorted(..., key=confidence, reverse=True): the sort is
\* stable, so p goes behind every element whose confidence is not lower.
InsertByConfidence(ordered, p) ==
    LET ahead == { i \in 1..Len(ordered) : ordered[i].confidence >= p.confidence }
        n == Cardinality(ahead)
    IN  SubSeq(ordered, 1, n) \o <<p>> \o SubSeq(ordered, n + 1, Len(ordered))

RECURSIVE SortedByConfidence(_)
SortedByConfidence(proposals) ==
    IF proposals = <<>> THEN <<>>
    ELSE InsertByConfidence(SortedByConfidence(SubSeq(proposals, 1, Len(proposals) - 1)),
                            proposals[Len(proposals)])

\* The loop over the ordered list: a seen key is skipped, any other entry is
\* appended, and the length is compared with the limit only after an append.
RECURSIVE DedupeLoop(_, _, _, _)
DedupeLoop(ordered, seen, out, limit) ==
    IF ordered = <<>> THEN out
    ELSE LET p == Head(ordered)
             key == DedupeKey(p)
         IN  IF key \in seen THEN DedupeLoop(Tail(ordered), seen, out, limit)
             ELSE IF Len(out) + 1 >= limit THEN Append(out, p)
             ELSE DedupeLoop(Tail(ordered), seen \cup {key}, Append(out, p), limit)

DedupeAndLimitProposals(proposals, limit) ==
    DedupeLoop(SortedByConfidence(proposals), {}, <<>>, limit)

DedupeAndLimit ==
    /\ dedupe_pc = "called"
    /\ dedupe_out' = DedupeAndLimitProposals(dedupe_in, max_items)
    /\ dedupe_pc' = "returned"
    /\ UNCHANGED <<dedupe_in, max_items>>

DedupeInit ==
    /\ dedupe_in \in SeqsUpTo(DedupeProposals, MaxDedupe)
    /\ max_items \in 0..MaxItems
    /\ dedupe_pc = "called"
    /\ dedupe_out = <<>>

DedupeNext ==
    \/ DedupeAndLimit
         /\ UNCHANGED <<poolVars, storyVars, fineVars, trackVars, calibVars, screenVars,
                        reviewVars, raceVars, stageVars, statusVars, iterVars, tplVars>>

DedupeStart ==
    DedupeInit /\ PoolIdle /\ StoryIdle /\ FineIdle /\ TrackIdle /\ CalibIdle /\ ScreenIdle
    /\ ReviewIdle /\ RaceIdle /\ StageIdle /\ StatusIdle /\ IterIdle /\ TplIdle

SpecDedupe == DedupeStart /\ [][DedupeNext]_vars

\* ---- C16 ----
\* The entries of the input that carry the key of entry p.
SameKey(p) == { i \in 1..Len(dedupe_in) : DedupeKey(dedupe_in[i]) = DedupeKey(p) }

\* The returned list has no two entries with one key.
NoSharedTriple ==
    \A i, j \in 1..Len(dedupe_out) :
        DedupeKey(dedupe_out[i]) = DedupeKey(dedupe_out[j]) => i = j

\* The returned list is in non-increasing order of confidence.
NonIncreasingConfidence ==
    \A i, j \in 1..Len(dedupe_out) :
        i < j => dedupe_out[i].confidence >= dedupe_out[j].confidence

\* Every returned entry is an entry of the input, and no entry of the input
\* with its key has a higher confidence.
HighestOccurrenceKept ==
    \A k \in 1..Len(dedupe_out) :
        /\ \E i \in 1..Len(dedupe_in) : dedupe_in[i] = dedupe_out[k]
        /\ \A i \in SameKey(dedupe_out[k]) :
               dedupe_in[i].confidence <= dedupe_out[k].confidence

\* C16: for every proposal list and every max_items the list returned by
\* _dedupe_and_limit_proposals has no two entries sharing the triple
\* (type, stripped title, stripped suggestion), has at most max_items
\* entries, is in non-increasing order of confidence, and keeps of each
\* distinct triple its highest-confidence occurrence.
C16_DedupeAndLimit ==
    dedupe_pc = "returned" =>
        /\ NoSharedTriple
        /\ Len(dedupe_out) <= max_items
        /\ NonIncreasingConfidence
        /\ HighestOccurrenceKept

\* ======================================================================
\* The rule-mode fallback on its own
\* (src/tradingagents/analyzer/fine_filter_engine.py, _fallback_decision)
\* ======================================================================

\* change_pct in 0.01 %: a fall, flat, the smallest rise, just under 8 %,
\* exactly 8 % and 9 %.
StageChanges == {-100, 0, 1, 799, 800, 900}

\* last_close, ma5 and ma10 in 0.01: every order of the three occurs.
StagePrices == {900, 1000, 1100}

StageItems ==
    { [symbol |-> "f1", change_pct |-> c, last_close |-> lc, ma5 |-> m5, ma10 |-> m10,
       sector |-> "", stats |-> "None", leader_status |-> ""] :
         c \in StageChanges, lc \in StagePrices, m5 \in StagePrices, m10 \in StagePrices }

FallbackCall ==
    /\ stage_pc = "called"
    /\ stage_card' = FallbackDecision(stage_item)
    /\ stage_pc' = "returned"
    /\ UNCHANGED stage_item

StageInit ==
    /\ stage_item \in StageItems
    /\ stage_pc = "called"
    /\ stage_card = <<>>

StageNext ==
    \/ FallbackCall
         /\ UNCHANGED <<poolVars, storyVars, fineVars, trackVars, calibVars, screenVars,
                        reviewVars, raceVars, dedupeVars, statusVars, iterVars, tplVars>>

StageStart ==
    StageInit /\ PoolIdle /\ StoryIdle /\ FineIdle /\ TrackIdle /\ CalibIdle /\ ScreenIdle
    /\ ReviewIdle /\ RaceIdle /\ DedupeIdle /\ StatusIdle /\ IterIdle /\ TplIdle

SpecStage == StageStart /\ [][StageNext]_vars

\* ---- C20 ----
\* change_pct >= 8 and last_close >= ma5 >= ma10
Accelerating ==
    /\ stage_item.change_pct >= 800
    /\ stage_item.last_close >= stage_item.ma5
    /\ stage_item.ma5 >= stage_item.ma10

\* change_pct > 0 and last_close >= ma5
Starting == stage_item.change_pct > 0 /\ stage_item.last_close >= stage_item.ma5

\* last_close < ma10
Adjusting == stage_item.last_close < stage_item.ma10

\* C20: the rule-mode fallback takes the first stage that matches, top to
\* bottom, for every combination of change_pct, last_close, ma5 and ma10:
\* "accelerating" if change_pct >= 8 and last_close >= ma5 >= ma10; else
\* "starting" if change_pct > 0 and last_close >= ma5; else "adjusting" if
\* last_close < ma10; else "second start".  The stage is always one of these
\* four and conclusion_type is "trend".
C20_FallbackStageFirstMatch ==
    stage_pc = "returned" =>
        /\ stage_card.stage = "jiasu" <=> Accelerating
        /\ stage_card.stage = "qidong" <=> (~Accelerating /\ Starting)
        /\ stage_card.stage = "tiaozheng" <=> (~Accelerating /\ ~Starting /\ Adjusting)
        /\ stage_card.stage = "erci_qidong" <=> (~Accelerating /\ ~Starting /\ ~Adjusting)
        /\ stage_card.stage \in {"jiasu", "qidong", "tiaozheng", "erci_qidong"}
        /\ stage_card.conclusion_type = "trend"

\* C20 witness: 9 % up with the close on MA5 but under MA10: the first rule
\* fails on ma5 >= ma10, and the second wins over the third, which matches too.
C20_Witness ==
    /\ stage_pc = "returned"
    /\ stage_item.change_pct = 900
    /\ stage_item.last_close = 1000
    /\ stage_item.ma5 = 1000
    /\ stage_item.ma10 = 1100
    /\ Starting /\ Adjusting /\ ~Accelerating
    /\ stage_card.stage = "qidong"

\* ======================================================================
\* One run of the iteration pipeline
\* (src/tradingagents/pipelines/iteration_pipeline.py, run_iteration_pipeline)
\* ======================================================================

MaxAi == 1         \* proposals of one type in the LLM reviewer's answer

\* The title of a proposal only the LLM reviewer makes.
TitleAi == <<"ai_patch">>

\* float(p.get("confidence", 0.5)) of the answer, in 0.001: the model was
\* asked for 0.0-1.0 and answers with any number.
AiConfidences == {-200, 500, 1500}

\* The entries of the answer's lists; the text of a suggestion goes with its
\* title.
AiRawProposals ==
    { [title |-> t, suggestion |-> t, confidence |-> c] :
        t \in {TitleMdd, TitleAi}, c \in AiConfidences }

\* generate_ai_review_suggestions: it raises (no client, no answer, no JSON, a
\* confidence that is no number), or it has the answer's two lists.
AiResponses ==
    { [raised |-> TRUE, rules |-> <<>>, prompts |-> <<>>] }
    \cup { [raised |-> FALSE, rules |-> r, prompts |-> q] :
             r \in SeqsUpTo(AiRawProposals, MaxAi), q \in SeqsUpTo(AiRawProposals, MaxAi) }

\* _norm, review_engine.py lines 281-295; round(x, 3) of a thousandth is itself
AiNorm(proposals, expected_type) ==
    [i \in 1..Len(proposals) |->
        [type |-> expected_type, title |-> proposals[i].title,
         suggestion |-> proposals[i].suggestion,
         confidence |-> proposals[i].confidence,
         status |-> "proposed", source |-> "ai_review"]]

\* A proposal of generate_patch_suggestions as the pipeline carries it on.
Deterministic(suggestions) ==
    [i \in 1..Len(suggestions) |->
        [type |-> suggestions[i].type, title |-> suggestions[i].title,
         suggestion |-> suggestions[i].title,
         confidence |-> suggestions[i].confidence,
         status |-> suggestions[i].status, source |-> "review_engine"]]

\* item = dict(p) keeps the keys of p that append_proposals does not set.
StoredItems(rules, prompts, ts, trade_date) ==
    LET added == AddedItems(rules, prompts, ts, trade_date)
        given == rules \o prompts
    IN  [i \in 1..Len(added) |->
            added[i] @@ [confidence |-> given[i].confidence, source |-> given[i].source]]

\* line 193
IterReview ==
    /\ iter_pc = "review"
    /\ IF iter_in.metrics = <<>>
       THEN iter_pc' = "ai" /\ iter_lists' = [rules |-> <<>>, prompts |-> <<>>]
       ELSE IF DividesByZero(iter_in.metrics, iter_in.min_valid_t3_samples)
       THEN iter_pc' = "raised" /\ iter_lists' = iter_lists
       ELSE LET out == PatchSuggestions(iter_in.metrics, iter_in.min_valid_t3_samples)
            IN  /\ iter_pc' = "ai"
                /\ iter_lists' = [rules |-> Deterministic(out.rule_patch_suggestions),
                                  prompts |-> Deterministic(out.prompt_patch_suggestions)]
    /\ UNCHANGED <<iter_in, iter_pool>>

\* lines 194-201
IterAiReview ==
    /\ iter_pc = "ai"
    /\ IF iter_in.enable_ai_review /\ iter_in.metrics # <<>>
       THEN \E resp \in AiResponses :
               iter_lists' =
                  IF resp.raised THEN iter_lists
                  ELSE [rules |-> iter_lists.rules \o AiNorm(resp.rules, "rule"),
                        prompts |-> iter_lists.prompts \o AiNorm(resp.prompts, "prompt")]
       ELSE iter_lists' = iter_lists
    /\ iter_pc' = "dedupe"
    /\ UNCHANGED <<iter_in, iter_pool>>

\* lines 202-209
IterDedupe ==
    /\ iter_pc = "dedupe"
    /\ iter_lists' =
          [rules |-> DedupeAndLimitProposals(iter_lists.rules, iter_in.max_rule_proposals),
           prompts |-> DedupeAndLimitProposals(iter_lists.prompts,
                                               iter_in.max_prompt_proposals)]
    /\ iter_pc' = "append"
    /\ UNCHANGED <<iter_in, iter_pool>>

\* lines 215-220
IterAppend ==
    /\ iter_pc = "append"
    /\ iter_pool' = AppendedPool(iter_pool,
                                 StoredItems(iter_lists.rules, iter_lists.prompts, 0, "d1"))
    /\ iter_pc' = "done"
    /\ UNCHANGED <<iter_in, iter_lists>>

IterInit ==
    /\ iter_in \in [metrics : SeqsUpTo(ReviewMetrics, 1),
                    min_valid_t3_samples : {0, 1},
                    max_rule_proposals : 1..MaxItems,
                    max_prompt_proposals : 1..MaxItems,
                    enable_ai_review : BOOLEAN]
    /\ iter_pc = "review"
    /\ iter_lists = [rules |-> <<>>, prompts |-> <<>>]
    /\ iter_pool = <<>>

IterNext ==
    \/ IterReview
         /\ UNCHANGED <<poolVars, storyVars, fineVars, trackVars, calibVars, screenVars,
                        reviewVars, raceVars, dedupeVars, stageVars, statusVars, tplVars>>
    \/ IterAiReview
         /\ UNCHANGED <<poolVars, storyVars, fineVars, trackVars, calibVars, screenVars,
                        reviewVars, raceVars, dedupeVars, stageVars, statusVars, tplVars>>
    \/ IterDedupe
         /\ UNCHANGED <<poolVars, storyVars, fineVars, trackVars, calibVars, screenVars,
                        reviewVars, raceVars, dedupeVars, stageVars, statusVars, tplVars>>
    \/ IterAppend
         /\ UNCHANGED <<poolVars, storyVars, fineVars, trackVars, calibVars, screenVars,
                        reviewVars, raceVars, dedupeVars, stageVars, statusVars, tplVars>>

IterStart ==
    IterInit /\ PoolIdle /\ StoryIdle /\ FineIdle /\ TrackIdle /\ CalibIdle /\ ScreenIdle
    /\ ReviewIdle /\ RaceIdle /\ DedupeIdle /\ StageIdle /\ StatusIdle /\ TplIdle

SpecIter == IterStart /\ [][IterNext]_vars

\* ---- C21 ----
\* Type and status of every stored proposal are of the stated sets.
StoredTypeAndStatus ==
    \A i \in 1..Len(iter_pool) :
        /\ iter_pool[i].type \in {"rule", "prompt"}
        /\ iter_pool[i].status \in {"proposed", "accepted", "rejected"}

\* The stored proposals of the deterministic heuristics have a confidence
\* within [0, 1].
HeuristicConfidenceInRange ==
    \A i \in 1..Len(iter_pool) :
        iter_pool[i].source = "review_engine" =>
            iter_pool[i].confidence >= 0 /\ iter_pool[i].confidence <= 1000

\* C21: every proposal stored in the pool after any iteration run, whether
\* produced by the deterministic heuristics or by the LLM reviewer, has type
\* in {rule, prompt}, status in {proposed, accepted, rejected} and confidence
\* within [0, 1].
C21_StoredProposalWellFormed ==
    /\ StoredTypeAndStatus
    /\ \A i \in 1..Len(iter_pool) :
          iter_pool[i].confidence >= 0 /\ iter_pool[i].confidence <= 1000

\* ------------------------------------------------------------------------
\* Fine filter: the prompt template
\* ------------------------------------------------------------------------

MaxHead == 2        \* tokens of an override file before its last section

PhStock == "{stock_payload}"

PhStory == "{story_payload}"

PhSector == "{sector_payload}"

PhNews == "{news_payload}"

\* The four payload sections and the output contract ("要求 ... 请输出如下JSON结构 ...").
Sections == <<PhStock, PhStory, PhSector, PhNews, "contract">>

\* PROMPT_TEMPLATE: the role line, the sections, a final newline.
BuiltinTemplate == <<"role", "ws">> \o Sections \o <<"ws">>

\* The text of the return statement of _load_prompt_template: "\n\n" and the sections.
Boilerplate == <<"ws">> \o Sections

\* The override files: no prompt_path configured, a path without a file, or a
\* file of some text that may already end with the sections (and a newline).
PromptFiles ==
    { [path |-> FALSE, exists |-> FALSE, content |-> <<>>],
      [path |-> TRUE, exists |-> FALSE, content |-> <<>>] }
    \cup { [path |-> TRUE, exists |-> TRUE, content |-> h \o t] :
              h \in SeqsUpTo({"role", "ws"}, MaxHead),
              t \in {<<>>, Sections, Sections \o <<"ws">>} }

LoadPromptTemplate(f) ==
    IF ~f.path THEN BuiltinTemplate
    ELSE IF ~f.exists THEN BuiltinTemplate
    ELSE LET content == Strip(f.content)
         IN  IF content = <<>> THEN BuiltinTemplate
             ELSE content \o Boilerplate

\* str.replace on a token: every occurrence is replaced.
Replace(text, old, new) == [i \in DOMAIN text |-> IF text[i] = old THEN new ELSE text[i]]

RenderPrompt(template, stock_payload, story_payload, sector_payload, news_payload) ==
    Replace(Replace(Replace(Replace(template, PhStock, stock_payload),
                            PhStory, story_payload),
                    PhSector, sector_payload),
            PhNews, news_payload)

TplLoad ==
    /\ tpl_pc = "start"
    /\ prompt_template' = LoadPromptTemplate(prompt_file)
    /\ tpl_pc' = "loaded"
    /\ UNCHANGED <<prompt_file, rendered>>

\* One candidate's prompt; a payload is JSON text, which may quote a placeholder.
TplRender ==
    /\ tpl_pc = "loaded"
    /\ \E stock_payload \in {"stock_json", PhStory},
          sector_payload \in {"sector_json", "{}"},
          news_payload \in {"news_json", "no_news"} :
          rendered' = RenderPrompt(prompt_template, stock_payload, "story_json",
                                   sector_payload, news_payload)
    /\ tpl_pc' = "rendered"
    /\ UNCHANGED <<prompt_file, prompt_template>>

TplInit ==
    /\ prompt_file \in PromptFiles
    /\ tpl_pc = "start"
    /\ prompt_template = <<>>
    /\ rendered = <<>>

TplNext ==
    \/ TplLoad /\ UNCHANGED <<poolVars, storyVars, fineVars, trackVars, calibVars, screenVars, reviewVars, raceVars, dedupeVars, stageVars, statusVars, iterVars>>
    \/ TplRender /\ UNCHANGED <<poolVars, storyVars, fineVars, trackVars, calibVars, screenVars, reviewVars, raceVars, dedupeVars, stageVars, statusVars, iterVars>>

TplStart ==
    TplInit /\ PoolIdle /\ StoryIdle /\ FineIdle /\ TrackIdle /\ CalibIdle /\ ScreenIdle
    /\ ReviewIdle /\ RaceIdle /\ DedupeIdle /\ StageIdle /\ StatusIdle /\ IterIdle

SpecTpl == TplStart /\ [][TplNext]_vars

\* How often a token occurs in a text.
Occurrences(text, tok) == Cardinality({i \in DOMAIN text : text[i] = tok})

EndsWith(text, tail) ==
    /\ Len(text) >= Len(tail)
    /\ SubSeq(text, Len(text) - Len(tail) + 1, Len(text)) = tail

\* The override file is used: configured, present and not blank.
OverrideUsed(f) == f.path /\ f.exists /\ Strip(f.content) # <<>>

\* What the loader does give: the built-in template without a usable
\* override, else the stripped override followed by the sections, always.
TemplateAsLoaded ==
    tpl_pc \in {"loaded", "rendered"} =>
        prompt_template = IF OverrideUsed(prompt_file)
                          THEN Strip(prompt_file.content) \o Boilerplate
                          ELSE BuiltinTemplate

\* C24: with an override file in use, the placeholder sections and the
\* output contract are put after the override's text only if that text does
\* not already end with them, so each of them occurs exactly once in the
\* template the prompt is rendered from; without a prompt_path, with a
\* missing file or with a blank file the template is the built-in one.
C24_SectionsOnce ==
    tpl_pc \in {"loaded", "rendered"} =>
        LET content == Strip(prompt_file.content)
        IN  IF OverrideUsed(prompt_file)
            THEN /\ prompt_template = IF EndsWith(content, Sections) THEN content
                                      ELSE content \o Boilerplate
                 /\ \A k \in 1..Len(Sections) :
                       Occurrences(prompt_template, Sections[k]) = 1
            ELSE prompt_template = BuiltinTemplate

====
